---------------------------- MODULE Spec2Model ----------------------------
(***************************************************************************)
(* Zed Workspace Manager (aigc17/zed-bianjiqi), main process.              *)
(*                                                                         *)
(* Part 1: the AppleScript executor (scriptQueue, runAppleScript,          *)
(*         processScriptQueue) with the child process, its 'close' and     *)
(*         'error' events and its timeout timer.                           *)
(* Part 2: the Zed workspace cache (zedWorkspaceCache,                     *)
(*         zedWorkspaceRefreshPromise, refreshZedWorkspaces,               *)
(*         getZedWorkspacesCached, getZedWorkspacesFresh).                 *)
(*                                                                         *)
(* The main process is one event loop: every handler below runs to         *)
(* completion, so one action is one handler (with everything it calls).    *)
(***************************************************************************)
EXTENDS Integers, Sequences, FiniteSets, TLC

\* ------------------------------------------------------------------ bounds
MaxItems == 3        \* scripts submitted to the executor in one run
MaxErrors == 1       \* children that emit 'error' in one run
MaxQueries == 3      \* sqlite3 queries issued in one run
MaxCallers == 2      \* getZedWorkspacesFresh() calls in one run
MaxRows == 1         \* lines of one sqlite3 output
MaxEpochs == 1       \* the clock runs over StartTime + k*TTL + e, k <= MaxEpochs
MaxSkew == 1         \*   and e = 0 or MaxSkew
StartTime == 1       \* Date.now() at program start (positive)
MaxLines == 3        \* lines of an argument of parseZedWorkspaces
MaxWindows == 2      \* windows Zed has open when a script runs
MaxListings == 1     \* getZedWindows() calls in one run
MaxActivations == 1  \* 'open-project' requests in one run
MaxEntries == 2      \* entries of the persisted project list
MaxDialogs == 2      \* 'select-folder' requests in one run
MaxPolls == 2        \* ticks of the poller that submit a query in one run
MaxSaves == 1        \* 'save-projects' requests in one run
MaxSeconds == 12     \* ticks of the poller when time is counted

\* ------------------------------------------------------- program constants
ZED_WORKSPACE_CACHE_TTL_MS == 60000
OSASCRIPT_TIMEOUT_MS == 3000
POLL_INTERVAL_MS == 1000

Items == 1..MaxItems
Callers == 1..MaxCallers
QueryIds == 1..MaxQueries

VARIABLES
  \* --- AppleScript executor
  scriptQueue,        \* const scriptQueue = []           (ids of waiting items)
  isScriptRunning,    \* let isScriptRunning = false
  child,              \* per item: the closure of processScriptQueue
  immediates,         \* pending setImmediate(processScriptQueue) callbacks
  submitted,          \* number of runAppleScript calls so far (item ids)
  cbOf,               \* per item: which callback was passed
  started,            \* history: items in the order they were spawned
  calls,              \* history: the results the handlers delivered, in order
  \* --- workspace cache
  zedWorkspaceCache,          \* { mapping, lastUpdated }
  zedWorkspaceRefreshPromise, \* 0 (null) or the id of the stored promise
  promises,                   \* per query id: the promise made for it
  queries,                    \* number of sqlite3 queries issued so far
  now,                        \* Date.now()
  fresh,                      \* per caller: its getZedWorkspacesFresh() call
  lastCall,                   \* the most recent operation and what it returned
  \* --- parsing, window listing and activation
  rawArg,             \* parseZedWorkspaces(raw): the argument of a call
  parsed,             \* ... and what the call returned
  scriptOf,           \* per item: the script that was submitted
  windowsPromise,     \* per item: the promise of a getZedWindows() call
  lastWindows,        \* the most recent run of the getZedWindows callback
  lastRaise,          \* the most recent run of an activation script
  zedWindows,         \* the titles of the windows of Zed, in enumeration order
  \* --- project list, shortcuts, folder dialog and poller
  file,               \* the content of CONFIG_PATH (projects.json)
  writes,             \* history: the writeFileSync calls on CONFIG_PATH
  loads,              \* per caller: its loadProjects() call
  thrown,             \* history: exceptions no handler caught
  isSystemDialogOpen, \* let isSystemDialogOpen = false
  dialogs,            \* per request: its 'select-folder' handler
  mainWindow,         \* the bar: destroyed or not, visible or not, always on top
  lastFrontApp,       \* let lastFrontApp = '' (startHideCheck)
  lastPoll,           \* the most recent run of the poller's callback
  backlog             \* the executor under the poller, counted and timed

queueVars == <<scriptQueue, isScriptRunning, child, immediates, submitted,
               cbOf, started, calls>>
cacheVars == <<zedWorkspaceCache, zedWorkspaceRefreshPromise, promises,
               queries, now, fresh, lastCall>>
windowVars == <<rawArg, parsed, scriptOf, windowsPromise, lastWindows, lastRaise,
                zedWindows>>
projectVars == <<file, writes, loads, thrown>>
dialogVars == <<isSystemDialogOpen, dialogs, mainWindow, lastFrontApp, lastPoll>>
appVars == <<projectVars, dialogVars, backlog>>
vars == <<queueVars, cacheVars, windowVars, appVars>>

(***************************************************************************)
(* Part 1.  AppleScript executor                                           *)
(***************************************************************************)

\* The callbacks passed to runAppleScript:
\*   "none"  adjustZedWindows / activateZedWindowByName: no callback
\*   "plain" getZedWindows: resolves a promise, submits nothing
\*   "poll"  startHideCheck: on success with Zed newly frontmost it calls
\*           adjustZedWindows(), i.e. runAppleScript from inside the callback
\*   "throw" a callback that throws (none of the program's own does)
\* Callers submit "plain" and "poll" items; "none" items come from the "poll"
\* callback.  (A caller's item without callback runs like a "plain" one, only
\* that `callback &&` then invokes nothing.)
RepoCallbacks == {"plain", "poll"}
AllCallbacks == RepoCallbacks \cup {"throw"}

\* The closure of one processScriptQueue run.
\*   st      "none": not spawned; "open": spawned, 'close' not yet emitted;
\*           "closed": 'close' emitted
\*   timer   the setTimeout is armed
\*   killed  let killed
\*   sig     SIGKILL was sent to the process
\*   errored 'error' was emitted
\*   spawns  how many processes were spawned for the item
\*   stdout, stderr   let stdout = '', stderr = ''
NoChild == [st |-> "none", timer |-> FALSE, killed |-> FALSE, sig |-> FALSE,
            errored |-> FALSE, spawns |-> 0, stdout |-> <<>>, stderr |-> <<>>]

\* What the osascript process of item i writes to its stdout and stderr
\* before it closes (the script decides it).
Stdout(i) == <<"out", i>>
Stderr(i) == <<"err", i>>

\* The executor's state as one value, so that handlers compose.
QState == [scriptQueue |-> scriptQueue, isScriptRunning |-> isScriptRunning,
           child |-> child, immediates |-> immediates, submitted |-> submitted,
           cbOf |-> cbOf, started |-> started, calls |-> calls]

QSet(s) ==
  /\ scriptQueue' = s.scriptQueue
  /\ isScriptRunning' = s.isScriptRunning
  /\ child' = s.child
  /\ immediates' = s.immediates
  /\ submitted' = s.submitted
  /\ cbOf' = s.cbOf
  /\ started' = s.started
  /\ calls' = s.calls

\* processScriptQueue(): part_000 65-79 (the synchronous part).
ProcessScriptQueue(s) ==
  IF s.isScriptRunning \/ s.scriptQueue = <<>>
  THEN s
  ELSE LET i == Head(s.scriptQueue)
       IN [s EXCEPT !.isScriptRunning = TRUE,
                    !.scriptQueue = Tail(@),
                    !.child[i] = [@ EXCEPT !.st = "open", !.timer = TRUE,
                                           !.spawns = @ + 1],
                    !.started = Append(@, i)]

\* runAppleScript(script, callback): part_000 60-63.
RunAppleScript(s, cb) ==
  LET i == s.submitted + 1
  IN ProcessScriptQueue([s EXCEPT !.scriptQueue = Append(@, i),
                                  !.submitted = i,
                                  !.cbOf[i] = cb])

\* callback && callback(err, out), with what the callback itself does.
\* A "poll" callback returns early on error; on success it may call
\* adjustZedWindows(), which is runAppleScript(script) without callback.
InvokeCallback(s, i, ev, code, err, msg, out) ==
  LET s1 == [s EXCEPT !.calls = Append(@, [item |-> i, ev |-> ev, code |-> code,
                                           err |-> err, msg |-> msg,
                                           out |-> out])]
  IN IF s.cbOf[i] = "poll" /\ err = "null" /\ s.submitted < MaxItems
     THEN RunAppleScript(s1, "none")
     ELSE s1

\* Whether the callback returned normally (so the handler goes on).
Returns(s, i) == s.cbOf[i] # "throw"

\* setImmediate(processScriptQueue)
SetImmediate(s) == [s EXCEPT !.immediates = @ + 1]

\* Mutant of CloseResult: the exit code is looked at before `killed`.
CloseResultCodeFirst(killed, code, stdout, stderr) ==
  IF code = 0 THEN [err |-> "null", msg |-> <<>>, out |-> stdout]
  ELSE IF killed THEN [err |-> "timeout", msg |-> <<>>, out |-> <<>>]
  ELSE [err |-> "failure", msg |-> stderr, out |-> <<>>]

\* The three-way classification of the 'close' handler: part_000 88-94.
CloseResult(killed, code, stdout, stderr) ==
  IF killed THEN [err |-> "timeout", msg |-> <<>>, out |-> <<>>]
  ELSE IF code # 0 THEN [err |-> "failure", msg |-> stderr, out |-> <<>>]
  ELSE [err |-> "null", msg |-> <<>>, out |-> stdout]

\* child.stdout.on('data', ...) and child.stderr.on('data', ...): part_000
\* 81-82.  The buffers only matter to the 'close' handler, and every 'data'
\* event of a child precedes its 'close'.
OnData(s, i) ==
  [s EXCEPT !.child[i] = [@ EXCEPT !.stdout = @ \o Stdout(i),
                                   !.stderr = @ \o Stderr(i)]]

\* child.on('close', (code) => ...): part_000 84-98.
OnClose(s, i, code) ==
  LET c == s.child[i]
      r == CloseResult(c.killed, code, c.stdout, c.stderr)
      s1 == [s EXCEPT !.child[i] = [@ EXCEPT !.st = "closed", !.timer = FALSE],
                      !.isScriptRunning = FALSE]
      s2 == InvokeCallback(s1, i, "close", code, r.err, r.msg, r.out)
  IN IF Returns(s, i) THEN SetImmediate(s2) ELSE s2

\* child.on('error', (err) => ...): part_000 100-105.
OnError(s, i) ==
  LET s1 == [s EXCEPT !.child[i] = [@ EXCEPT !.errored = TRUE, !.timer = FALSE],
                      !.isScriptRunning = FALSE]
      s2 == InvokeCallback(s1, i, "error", -1, "error", <<>>, <<>>)
  IN IF Returns(s, i) THEN SetImmediate(s2) ELSE s2

\* Mutant of OnTimeout: the process is killed but `killed` is not set.
OnTimeoutNoFlag(s, i, sent) ==
  LET s1 == [s EXCEPT !.child[i] = [@ EXCEPT !.timer = FALSE, !.sig = sent]]
  IN IF sent THEN s1 ELSE OnError(s1, i)

\* The setTimeout callback: part_000 76-79.  child.kill('SIGKILL') signals
\* this closure's child; when the signal cannot be sent, kill() emits 'error'
\* on the child before it returns.
OnTimeout(s, i, sent) ==
  LET s1 == [s EXCEPT !.child[i] = [@ EXCEPT !.timer = FALSE, !.killed = TRUE,
                                             !.sig = sent]]
  IN IF sent THEN s1 ELSE OnError(s1, i)

QueueInit ==
  /\ scriptQueue = <<>>
  /\ isScriptRunning = FALSE
  /\ child = [i \in Items |-> NoChild]
  /\ immediates = 0
  /\ submitted = 0
  /\ cbOf = [i \in Items |-> "none"]
  /\ started = <<>>
  /\ calls = <<>>

\* A caller (IPC handler, shortcut, poller tick) submits a script.
Submit(cb) ==
  /\ submitted < MaxItems
  /\ QSet(RunAppleScript(QState, cb))
  /\ UNCHANGED <<appVars, cacheVars, windowVars>>

\* A pending setImmediate callback runs processScriptQueue.
RunImmediate ==
  /\ immediates > 0
  /\ QSet(ProcessScriptQueue([QState EXCEPT !.immediates = @ - 1]))
  /\ UNCHANGED <<appVars, cacheVars, windowVars>>

\* The exit codes 'close' can carry: 0, nonzero (1), or null (2) when the
\* process died of the signal (-1: the errno of a failed spawn).  A process
\* that was sent SIGKILL either dies of it or had exited just before (here:
\* with 0).
CloseCodes(c) == IF c.sig THEN {0, 2} ELSE {0, 1}

\* The child's output has been read and 'close' is emitted (once per child).
ChildClose(i, code) ==
  /\ child[i].st = "open"
  /\ code \in CloseCodes(child[i])
  /\ QSet(OnClose(OnData(QState, i), i, code))
  /\ UNCHANGED <<appVars, cacheVars, windowVars>>

\* Fewer than MaxErrors children have emitted 'error'.
MayFail == Cardinality({j \in Items : child[j].errored}) < MaxErrors

\* The spawn failed (EAGAIN, ENOENT, ...): Node emits 'error' and then 'close'
\* with the negative errno as code, in the tick after the spawn; nothing
\* was written.  No other event of the child precedes them.
SpawnFails(i) ==
  /\ child[i].st = "open"
  /\ child[i].timer
  /\ MayFail
  /\ QSet(OnClose(OnError(QState, i), i, -1))
  /\ UNCHANGED <<appVars, cacheVars, windowVars>>

\* The timer of item i expires after OSASCRIPT_TIMEOUT_MS; the signal is sent,
\* or cannot be sent (Node: "the process could not be killed").
Timeout(i, sent) ==
  /\ child[i].timer
  /\ sent \/ MayFail
  /\ QSet(OnTimeout(QState, i, sent))
  /\ UNCHANGED <<appVars, cacheVars, windowVars>>

QueueEvents ==
  \/ RunImmediate
  \/ \E i \in Items, code \in {0, 1, 2} : ChildClose(i, code)
  \/ \E i \in Items : SpawnFails(i)
  \/ \E i \in Items, sent \in BOOLEAN : Timeout(i, sent)

QueueNext ==
  \/ \E cb \in RepoCallbacks : Submit(cb)
  \/ QueueEvents

\* The executor used with any callback, throwing ones included.
ThrowNext ==
  \/ \E cb \in AllCallbacks : Submit(cb)
  \/ QueueEvents

(***************************************************************************)
(* Part 2.  Zed workspace cache                                            *)
(***************************************************************************)

\* A path is the sequence of its components; <<>> is an empty line.
Paths == {<<"a", "foo">>, <<"b", "foo">>, <<"c", "constructor">>}
Lines == Paths \cup {<<>>}

\* path.basename(p)
Basename(p) == p[Len(p)]

\* The outputs sqlite3 can print: up to MaxRows lines.
DbOutputs == UNION {[1..n -> Lines] : n \in 0..MaxRows}

\* A mapping { name: path } is a function; {} is the function with no keys.
EmptyMapping == [n \in {} |-> <<>>]

\* Keys every JavaScript object literal inherits from Object.prototype:
\* mapping[name] is truthy for them although mapping has no such own key.
InheritedKeys == {"constructor"}

\* mapping[name] as a condition (truthy or not).
Truthy(mapping, name) == name \in DOMAIN mapping \/ name \in InheritedKeys

\* String.prototype.trim() on newline-separated text: leading and trailing
\* empty lines go.
RECURSIVE TrimLeft(_)
TrimLeft(raw) ==
  IF raw # <<>> /\ Head(raw) = <<>> THEN TrimLeft(Tail(raw)) ELSE raw

RECURSIVE TrimRight(_)
TrimRight(raw) ==
  IF raw # <<>> /\ raw[Len(raw)] = <<>>
  THEN TrimRight(SubSeq(raw, 1, Len(raw) - 1)) ELSE raw

Trim(raw) == TrimRight(TrimLeft(raw))

\* parseZedWorkspaces(raw): main.js 167-178.  The forEach, line by line.
RECURSIVE ParseLines(_, _)
ParseLines(lines, mapping) ==
  IF lines = <<>> THEN mapping
  ELSE LET p == Head(lines)
       IN IF p = <<>> THEN ParseLines(Tail(lines), mapping)
          ELSE IF ~Truthy(mapping, Basename(p))
               THEN ParseLines(Tail(lines),
                      [n \in DOMAIN mapping \cup {Basename(p)} |->
                         IF n = Basename(p) THEN p ELSE mapping[n]])
               ELSE ParseLines(Tail(lines), mapping)

ParseZedWorkspaces(raw) == ParseLines(Trim(raw), EmptyMapping)

\* The clock values of a run: whole TTLs after the start, and MaxSkew ms later.
Times == {StartTime + k * ZED_WORKSPACE_CACHE_TTL_MS + e :
            k \in 0..MaxEpochs, e \in {0, MaxSkew}}

\* Mutant of IsStale: an age of exactly the TTL counts as stale.
IsStaleAtTTL(cache, t) ==
  cache.lastUpdated = 0 \/ t - cache.lastUpdated >= ZED_WORKSPACE_CACHE_TTL_MS

\* const isStale = !lastUpdated || (now - lastUpdated > TTL): main.js 209-210.
IsStale(cache, t) ==
  cache.lastUpdated = 0 \/ t - cache.lastUpdated > ZED_WORKSPACE_CACHE_TTL_MS

NoCache == [mapping |-> EmptyMapping, lastUpdated |-> 0]
\* A promise of refreshZedWorkspaces: its state, the value it resolved with
\* and (history) the cache as it was when its query was started.
NoPromise == [state |-> "none", value |-> EmptyMapping, before |-> NoCache]
\* A getZedWorkspacesFresh() call: "idle" (not made), "waiting" at the await
\* on promise `on`, or "resolved" with `value` (on = 0: without a refresh).
Idle == [st |-> "idle", on |-> 0, value |-> EmptyMapping]

\* The cache's state as one value.
CState == [zedWorkspaceCache |-> zedWorkspaceCache,
           zedWorkspaceRefreshPromise |-> zedWorkspaceRefreshPromise,
           promises |-> promises, queries |-> queries, fresh |-> fresh]

CSet(s) ==
  /\ zedWorkspaceCache' = s.zedWorkspaceCache
  /\ zedWorkspaceRefreshPromise' = s.zedWorkspaceRefreshPromise
  /\ promises' = s.promises
  /\ queries' = s.queries
  /\ fresh' = s.fresh

\* What lastCall records of an operation.
\*   op, who   the operation and (getFresh) the caller
\*   ret       what it returned or resolved with
\*   at        Date.now() when it ran
\*   before    the cache when it was called
\*   q         the promise it returned, or the query that called back
\*   queriesBefore   the number of queries issued before it
\*   prev, prevq     op and q of the operation before it
\*   stdout          (queryOutput) what sqlite3 had printed
Call(op, who, ret, before, q) ==
  [op |-> op, who |-> who, ret |-> ret, at |-> now, before |-> before,
   q |-> q, queriesBefore |-> queries,
   prev |-> lastCall.op, prevq |-> lastCall.q, stdout |-> <<>>]

\* Mutant of RefreshZedWorkspaces: no look at the stored promise, every call
\* starts a query (while the bound on queries allows).
RefreshAlways(s) ==
  IF s.queries >= MaxQueries
  THEN s
  ELSE LET q == s.queries + 1
       IN [s EXCEPT !.queries = q,
                    !.promises[q] = [state |-> "pending", value |-> EmptyMapping,
                                     before |-> s.zedWorkspaceCache],
                    !.zedWorkspaceRefreshPromise = q]

\* refreshZedWorkspaces(): main.js 180-204, up to the exec.  The promise it
\* returns is the one stored afterwards.
RefreshZedWorkspaces(s) ==
  IF s.zedWorkspaceRefreshPromise # 0
  THEN s
  ELSE LET q == s.queries + 1
       IN [s EXCEPT !.queries = q,
                    !.promises[q] = [state |-> "pending", value |-> EmptyMapping,
                                     before |-> s.zedWorkspaceCache],
                    !.zedWorkspaceRefreshPromise = q]

\* Whether refreshZedWorkspaces() can run within the bound on queries.
CanRefresh == zedWorkspaceRefreshPromise # 0 \/ queries < MaxQueries

\* Mutant of CachedAfter: a stale cache is stamped with the time of the call
\* that starts its refresh.
CachedAfterStamps(s, t) ==
  IF IsStale(s.zedWorkspaceCache, t)
  THEN RefreshZedWorkspaces([s EXCEPT !.zedWorkspaceCache.lastUpdated = t])
  ELSE s

\* getZedWorkspacesCached(): main.js 206-216.
CachedAfter(s, t) ==
  IF IsStale(s.zedWorkspaceCache, t) THEN RefreshZedWorkspaces(s) ELSE s

GetZedWorkspacesCached ==
  /\ IsStale(zedWorkspaceCache, now) => CanRefresh
  /\ LET s == CachedAfter(CState, now)
     IN /\ CSet(s)
        /\ lastCall' = Call("getCached", 0, s.zedWorkspaceCache.mapping,
                            zedWorkspaceCache, s.zedWorkspaceRefreshPromise)
  /\ UNCHANGED <<appVars, now, queueVars, windowVars>>

\* Mutant of FreshAfter: a stale cache starts the refresh but the held mapping
\* is returned without awaiting it.
FreshNoAwait(s, c, t) ==
  LET s1 == IF IsStale(s.zedWorkspaceCache, t) THEN RefreshZedWorkspaces(s)
            ELSE s
  IN [s1 EXCEPT !.fresh[c] = [st |-> "resolved", on |-> 0,
                              value |-> s.zedWorkspaceCache.mapping]]

\* getZedWorkspacesFresh(): main.js 218-228, up to the await or the return.
FreshAfter(s, c, t) ==
  IF IsStale(s.zedWorkspaceCache, t)
  THEN LET s1 == RefreshZedWorkspaces(s)
       IN [s1 EXCEPT !.fresh[c] =
             [st |-> "waiting", on |-> s1.zedWorkspaceRefreshPromise,
              value |-> EmptyMapping]]
  ELSE [s EXCEPT !.fresh[c] =
             [st |-> "resolved", on |-> 0,
              value |-> s.zedWorkspaceCache.mapping]]

GetZedWorkspacesFresh(c) ==
  /\ fresh[c].st = "idle"
  /\ IsStale(zedWorkspaceCache, now) => CanRefresh
  /\ LET s == FreshAfter(CState, c, now)
     IN /\ CSet(s)
        /\ lastCall' = Call("getFresh", c, s.fresh[c].value, zedWorkspaceCache,
                            s.fresh[c].on)
  /\ UNCHANGED <<appVars, now, queueVars, windowVars>>

\* resolve(value) of promise q: the promise settles and every caller awaiting
\* it continues with that value (microtasks, before any other event).
Resolve(s, q, value) ==
  [s EXCEPT !.promises[q] = [@ EXCEPT !.state = "resolved", !.value = value],
            !.fresh = [c \in Callers |->
                         IF @[c].st = "waiting" /\ @[c].on = q
                         THEN [@[c] EXCEPT !.st = "resolved", !.value = value]
                         ELSE @[c]]]

\* Mutant of OnQueryError: the stored promise is not cleared.
OnQueryErrorKeepsPromise(s, q) ==
  Resolve(s, q, s.zedWorkspaceCache.mapping)

\* Mutant of OnQueryError: the failure empties the cache.
OnQueryErrorClears(s, q) ==
  Resolve([s EXCEPT !.zedWorkspaceRefreshPromise = 0,
                    !.zedWorkspaceCache = NoCache], q, EmptyMapping)

\* The exec callback with err set: main.js 186-190.
OnQueryError(s, q) ==
  Resolve([s EXCEPT !.zedWorkspaceRefreshPromise = 0], q,
          s.zedWorkspaceCache.mapping)

\* Mutant of OnQueryOutput: an empty output keeps the mapping held before.
OnQueryOutputKeepsOld(s, q, stdout, t) ==
  LET output == Trim(stdout)
      mapping == IF output # <<>> THEN ParseZedWorkspaces(output)
                 ELSE s.zedWorkspaceCache.mapping
  IN Resolve([s EXCEPT !.zedWorkspaceCache =
                          [mapping |-> mapping, lastUpdated |-> t],
                       !.zedWorkspaceRefreshPromise = 0], q, mapping)

\* The exec callback without err: main.js 192-199.
OnQueryOutput(s, q, stdout, t) ==
  LET output == Trim(stdout)
      mapping == IF output # <<>> THEN ParseZedWorkspaces(output)
                 ELSE EmptyMapping
  IN Resolve([s EXCEPT !.zedWorkspaceCache =
                          [mapping |-> mapping, lastUpdated |-> t],
                       !.zedWorkspaceRefreshPromise = 0], q, mapping)

QueryFails(q) ==
  /\ promises[q].state = "pending"
  /\ LET s == OnQueryError(CState, q)
     IN /\ CSet(s)
        /\ lastCall' = Call("queryError", 0, s.promises[q].value,
                            zedWorkspaceCache, q)
  /\ UNCHANGED <<appVars, now, queueVars, windowVars>>

QueryReturns(q, stdout) ==
  /\ promises[q].state = "pending"
  /\ LET s == OnQueryOutput(CState, q, stdout, now)
     IN /\ CSet(s)
        /\ lastCall' = [Call("queryOutput", 0, s.promises[q].value,
                             zedWorkspaceCache, q) EXCEPT !.stdout = stdout]
  /\ UNCHANGED <<appVars, now, queueVars, windowVars>>

\* Time passes.
Tick(t) ==
  /\ t > now
  /\ now' = t
  /\ lastCall' = Call("tick", 0, EmptyMapping, zedWorkspaceCache, 0)
  /\ UNCHANGED <<appVars, zedWorkspaceCache, zedWorkspaceRefreshPromise, promises,
                 queries, fresh, queueVars, windowVars>>

CacheInit ==
  /\ zedWorkspaceCache = NoCache
  /\ zedWorkspaceRefreshPromise = 0
  /\ promises = [q \in QueryIds |-> NoPromise]
  /\ queries = 0
  /\ now = StartTime
  /\ fresh = [c \in Callers |-> Idle]
  /\ lastCall = [op |-> "init", who |-> 0, ret |-> EmptyMapping,
                 at |-> StartTime, before |-> NoCache, q |-> 0,
                 queriesBefore |-> 0, prev |-> "init", prevq |-> 0,
                 stdout |-> <<>>]

CacheNext ==
  \/ GetZedWorkspacesCached
  \/ \E c \in Callers : GetZedWorkspacesFresh(c)
  \/ \E q \in QueryIds : QueryFails(q)
  \/ \E q \in QueryIds, stdout \in DbOutputs : QueryReturns(q, stdout)
  \/ \E t \in Times : Tick(t)

(***************************************************************************)
(* Part 3.  parseZedWorkspaces called on its own                           *)
(***************************************************************************)

\* The arguments: up to MaxLines lines, each a path or empty.
ParseInputs == UNION {[1..n -> Lines] : n \in 0..MaxLines}

\* `parsed` before the call.
Unparsed == [done |-> FALSE, mapping |-> EmptyMapping]

\* const mapping = parseZedWorkspaces(raw)
ParseCall ==
  /\ ~parsed.done
  /\ parsed' = [done |-> TRUE, mapping |-> ParseZedWorkspaces(rawArg)]
  /\ UNCHANGED <<appVars, rawArg, scriptOf, windowsPromise, lastWindows, lastRaise, zedWindows,
                 queueVars, cacheVars>>

(***************************************************************************)
(* Part 4.  Window listing: getZedWindows                                  *)
(*                                                                         *)
(* Text is a sequence of tokens: words and the delimiters below.  A window *)
(* title is text without a newline.                                        *)
(***************************************************************************)
Comma == ", "        \* the list delimiter of osascript's output
Dash == " -- "       \* ' — ' (space, em dash, space)
Newline == "\n"

\* What is left of a delimiter at the end (start) of the text after trim()
\* has taken its outer space.
CommaEnd == ","
DashEnd == " --"
DashStart == "-- "

EmptyProject == <<"empty project">>

\* The titles a Zed window can have when the windows are listed: untitled, a
\* project with or without an open file, one named like a member of
\* Object.prototype, a window without a name, and an open file with ", " in
\* its name.
Titles == { EmptyProject,
            <<"foo">>,
            <<"foo", Dash, "main.rs">>,
            <<"constructor">>,
            <<>>,
            <<"foo", Dash, "a", Comma, "b">> }

\* The windows of Zed in enumeration order (none: Zed has no window or does
\* not run).
TitleLists == UNION {[1..n -> Titles] : n \in 0..MaxWindows}

\* titles.join(', ')
RECURSIVE Join(_)
Join(titles) ==
  IF titles = <<>> THEN <<>>
  ELSE IF Len(titles) = 1 THEN Head(titles)
  ELSE Head(titles) \o <<Comma>> \o Join(Tail(titles))

\* What osascript prints for `get name of every window` (and for `return ""`):
\* the names joined by ", ", and a newline.
Output(titles) == Join(titles) \o <<Newline>>

\* String.prototype.trim() on token text.
RECURSIVE TrimEnd(_)
TrimEnd(text) ==
  IF text = <<>> THEN text
  ELSE LET last == text[Len(text)]
           front == SubSeq(text, 1, Len(text) - 1)
       IN IF last = Newline THEN TrimEnd(front)
          ELSE IF last = Comma THEN Append(front, CommaEnd)
          ELSE IF last = Dash THEN Append(front, DashEnd)
          ELSE text

RECURSIVE TrimStart(_)
TrimStart(text) ==
  IF text = <<>> THEN text
  ELSE IF Head(text) = Newline THEN TrimStart(Tail(text))
  ELSE IF Head(text) = Dash THEN <<DashStart>> \o Tail(text)
  ELSE text

TrimText(text) == TrimStart(TrimEnd(text))

\* String.prototype.split(sep): the pieces between the separators.
RECURSIVE Split(_, _)
Split(text, sep) ==
  IF text = <<>> THEN << <<>> >>
  ELSE LET rest == Split(Tail(text), sep)
       IN IF Head(text) = sep THEN << <<>> >> \o rest
          ELSE << <<Head(text)>> \o Head(rest) >> \o Tail(rest)

\* .filter(name => name)
NonEmpty(pieces) == SelectSeq(pieces, LAMBDA piece : piece # <<>>)

\* The characters of token text as one string (a key of the mapping).
RECURSIVE Str(_)
Str(text) == IF text = <<>> THEN "" ELSE Head(text) \o Str(Tail(text))

\* `empty project (${k})`
UntitledName(k) == <<"empty project", " (", ToString(k), ")">>

\* windowName.includes(' — ') ? windowName.split(' — ')[0] : windowName
ProjectName(windowName) ==
  IF \E k \in 1..Len(windowName) : windowName[k] = Dash
  THEN Head(Split(windowName, Dash))
  ELSE windowName

\* null, and the value of an inherited member (a function, neither null nor a
\* path).
Null == <<>>
Inherited(name) == <<"Object.prototype", name>>

\* workspaces[projectName] || null
Lookup(workspaces, name) ==
  IF name \in DOMAIN workspaces THEN workspaces[name]
  ELSE IF name \in InheritedKeys THEN Inherited(name)
  ELSE Null

\* Mutant of MapTitles: the counter is not advanced.
MapTitlesSameIndex(pieces, workspaces, emptyCount) ==
  [k \in 1..Len(pieces) |->
     IF pieces[k] = EmptyProject
     THEN [windowName |-> UntitledName(emptyCount + 1), path |-> Null,
           displayName |-> UntitledName(emptyCount + 1)]
     ELSE [windowName |-> pieces[k],
           path |-> Lookup(workspaces, Str(ProjectName(pieces[k]))),
           displayName |-> ProjectName(pieces[k])]]

\* The .map(windowName => ...) of getZedWindows with its counter: part_000
\* 338-362.
RECURSIVE MapTitles(_, _, _)
MapTitles(pieces, workspaces, emptyCount) ==
  IF pieces = <<>> THEN <<>>
  ELSE LET windowName == Head(pieces)
       IN IF windowName = EmptyProject
          THEN << [windowName |-> UntitledName(emptyCount + 1),
                   path |-> Null,
                   displayName |-> UntitledName(emptyCount + 1)] >>
               \o MapTitles(Tail(pieces), workspaces, emptyCount + 1)
          ELSE << [windowName |-> windowName,
                   path |-> Lookup(workspaces, Str(ProjectName(windowName))),
                   displayName |-> ProjectName(windowName)] >>
               \o MapTitles(Tail(pieces), workspaces, emptyCount)

\* stdout.trim().split(', ').filter(name => name)
TitlePieces(stdout) == NonEmpty(Split(TrimText(stdout), Comma))

\* Mutant of Windows: the entries come in the opposite order.
WindowsReversed(stdout, workspaces) ==
  LET windows == MapTitles(TitlePieces(stdout), workspaces, 0)
  IN [k \in 1..Len(windows) |-> windows[Len(windows) + 1 - k]]

\* The windows getZedWindows resolves with for a non-empty stdout.
Windows(stdout, workspaces) == MapTitles(TitlePieces(stdout), workspaces, 0)

\* The scripts: adjustZedWindows and the poller's ("other"), getZedWindows'
\* ("list"), and the two of activateZedWindowByName.
NoScript == [kind |-> "other"]
ListScript == [kind |-> "list"]

\* lastWindows before any run of the callback.
\*   item, err, stdout   the callback's item and arguments
\*   titles              the windows the script had enumerated
\*   before, at          the cache and Date.now() when the callback ran
\*   queriesBefore       the queries issued before it
\*   asked               it called getZedWorkspacesCached()
\*   value               what it passed to resolve
\*   settled             that resolve settled the promise (the first one does)
NoWindows == [item |-> 0, err |-> "null", stdout |-> <<>>, titles |-> <<>>,
              before |-> NoCache, at |-> 0, queriesBefore |-> 0,
              asked |-> FALSE, value |-> <<>>, settled |-> FALSE]

\* What the callback of getZedWindows reads and writes, as one value.
LState == [c |-> CState, promise |-> windowsPromise, last |-> lastWindows,
           call |-> lastCall]

\* The promise of a getZedWindows() call: not made, pending, or resolved with
\* a value.
NoListing == [st |-> "none", value |-> <<>>]
PendingListing == [st |-> "pending", value |-> <<>>]

\* resolve(value): settles a pending promise, nothing else.
ResolveListing(promise, value) ==
  IF promise.st = "pending" THEN [st |-> "resolved", value |-> value]
  ELSE promise

\* What lastWindows and lastCall record of a run of the callback.
ListRun(l, i, err, stdout, titles, asked, value) ==
  [item |-> i, err |-> err, stdout |-> stdout, titles |-> titles,
   before |-> l.c.zedWorkspaceCache, at |-> now,
   queriesBefore |-> l.c.queries, asked |-> asked, value |-> value,
   settled |-> l.promise[i].st = "pending"]

CachedCall(l, c1) ==
  [op |-> "getCached", who |-> 0, ret |-> l.c.zedWorkspaceCache.mapping,
   at |-> now, before |-> l.c.zedWorkspaceCache,
   q |-> c1.zedWorkspaceRefreshPromise, queriesBefore |-> l.c.queries,
   prev |-> l.call.op, prevq |-> l.call.q, stdout |-> <<>>]

\* Mutant of ListCallback: the mapping is asked for before the early return.
ListCallbackAsksFirst(l, i, err, stdout, titles) ==
  LET empty == err # "null" \/ TrimText(stdout) = <<>>
      workspaces == l.c.zedWorkspaceCache.mapping
      c1 == CachedAfter(l.c, now)
      value == IF empty THEN <<>> ELSE Windows(stdout, workspaces)
  IN [c |-> c1,
      promise |-> [l.promise EXCEPT ![i] = ResolveListing(@, value)],
      last |-> ListRun(l, i, err, stdout, titles, ~empty, value),
      call |-> CachedCall(l, c1)]

\* Mutant of ListCallback: with a stale cache it awaits the refresh
\* (getZedWorkspacesFresh) and resolves later.
ListCallbackAwaits(l, i, err, stdout, titles) ==
  LET empty == err # "null" \/ TrimText(stdout) = <<>>
      workspaces == l.c.zedWorkspaceCache.mapping
      c1 == IF empty THEN l.c ELSE CachedAfter(l.c, now)
      value == IF empty THEN <<>> ELSE Windows(stdout, workspaces)
      waits == ~empty /\ IsStale(l.c.zedWorkspaceCache, now)
  IN [c |-> c1,
      promise |-> IF waits THEN l.promise
                  ELSE [l.promise EXCEPT ![i] = ResolveListing(@, value)],
      last |-> ListRun(l, i, err, stdout, titles, ~empty, value),
      call |-> IF empty THEN l.call ELSE CachedCall(l, c1)]

\* The callback getZedWindows passes to runAppleScript: part_000 334-364.
ListCallback(l, i, err, stdout, titles) ==
  LET empty == err # "null" \/ TrimText(stdout) = <<>>
      workspaces == l.c.zedWorkspaceCache.mapping
      c1 == IF empty THEN l.c ELSE CachedAfter(l.c, now)
      value == IF empty THEN <<>> ELSE Windows(stdout, workspaces)
  IN [c |-> c1,
      promise |-> [l.promise EXCEPT ![i] = ResolveListing(@, value)],
      last |-> ListRun(l, i, err, stdout, titles, ~empty, value),
      call |-> IF empty THEN l.call ELSE CachedCall(l, c1)]

\* The callbacks a handler of the executor invoked, run in order: those of
\* "list" items are getZedWindows' callback; text is what the script printed.
RECURSIVE RunCallbacks(_, _, _)
RunCallbacks(l, newCalls, titles) ==
  IF newCalls = <<>> THEN l
  ELSE LET cl == Head(newCalls)
           stdout == IF cl.out = <<>> THEN <<>> ELSE Output(titles)
           l1 == IF scriptOf[cl.item].kind = "list"
                 THEN ListCallback(l, cl.item, cl.err, stdout, titles)
                 ELSE l
       IN RunCallbacks(l1, Tail(newCalls), titles)

\* A handler of the executor took it to state s: its callbacks run with it.
ListEvent(s, titles) ==
  LET l == RunCallbacks(LState, SubSeq(s.calls, Len(calls) + 1, Len(s.calls)),
                        titles)
  IN /\ QSet(s)
     /\ CSet(l.c)
     /\ windowsPromise' = l.promise
     /\ lastWindows' = l.last
     /\ lastCall' = l.call
     /\ UNCHANGED <<appVars, now, rawArg, parsed, scriptOf, lastRaise, zedWindows>>

\* getZedWindows(): part_000 328-334, up to runAppleScript.
GetZedWindows ==
  /\ submitted < MaxListings
  /\ LET s == RunAppleScript(QState, "plain")
     IN /\ QSet(s)
        /\ scriptOf' = [scriptOf EXCEPT ![s.submitted] = ListScript]
        /\ windowsPromise' = [windowsPromise EXCEPT ![s.submitted] = PendingListing]
  /\ UNCHANGED <<appVars, cacheVars, rawArg, parsed, lastWindows, lastRaise, zedWindows>>

\* The title-listing script closes; with code 0 and no timeout it had printed
\* the titles of Zed's windows.
ListClose(i, code, titles) ==
  /\ scriptOf[i].kind = "list"
  /\ child[i].st = "open"
  /\ code \in CloseCodes(child[i])
  /\ (code # 0 \/ child[i].killed) => titles = <<>>
  /\ (TrimText(Output(titles)) # <<>> /\ IsStale(zedWorkspaceCache, now))
        => CanRefresh
  /\ ListEvent(OnClose(OnData(QState, i), i, code), titles)

\* Its spawn fails.
ListSpawnFails(i) ==
  /\ scriptOf[i].kind = "list"
  /\ child[i].st = "open"
  /\ child[i].timer
  /\ MayFail
  /\ ListEvent(OnClose(OnError(QState, i), i, -1), <<>>)

\* Its timer expires.
ListTimeout(i, sent) ==
  /\ scriptOf[i].kind = "list"
  /\ child[i].timer
  /\ sent \/ MayFail
  /\ ListEvent(OnTimeout(QState, i, sent), <<>>)

\* The caches a listing can meet: never refreshed, or refreshed at some time
\* with some output of the database.
ListingCaches ==
  {NoCache} \cup {[mapping |-> ParseZedWorkspaces(o), lastUpdated |-> u] :
                    o \in DbOutputs, u \in Times}

\* The cache in state `cache` at time t, with a refresh under way or not
\* (one can only be under way for a stale cache).
ListingStart ==
  /\ QueueInit
  /\ \E cache \in ListingCaches, t \in Times, pending \in BOOLEAN :
       /\ t >= cache.lastUpdated
       /\ pending => IsStale(cache, t)
       /\ LET filled == cache.lastUpdated # 0
              base == [zedWorkspaceCache |-> cache,
                       zedWorkspaceRefreshPromise |-> 0,
                       promises |-> [q \in QueryIds |->
                                       IF filled /\ q = 1
                                       THEN [state |-> "resolved",
                                             value |-> cache.mapping,
                                             before |-> NoCache]
                                       ELSE NoPromise],
                       queries |-> IF filled THEN 1 ELSE 0,
                       fresh |-> [c \in Callers |-> Idle]]
              s == IF pending THEN RefreshZedWorkspaces(base) ELSE base
          IN /\ zedWorkspaceCache = s.zedWorkspaceCache
             /\ zedWorkspaceRefreshPromise = s.zedWorkspaceRefreshPromise
             /\ promises = s.promises
             /\ queries = s.queries
             /\ fresh = s.fresh
             /\ now = t
             /\ lastCall = [op |-> "init", who |-> 0, ret |-> EmptyMapping,
                            at |-> t, before |-> cache, q |-> 0,
                            queriesBefore |-> s.queries, prev |-> "init",
                            prevq |-> 0, stdout |-> <<>>]

\* Zed with one window at most.
ShortTitleLists == {titles \in TitleLists : Len(titles) <= 1}

ListingNext ==
  \/ GetZedWindows
  \/ RunImmediate
  \/ \E i \in Items, code \in {0, 1, 2}, titles \in ShortTitleLists :
        ListClose(i, code, titles)
  \/ \E i \in Items : ListSpawnFails(i)
  \/ \E i \in Items, sent \in BOOLEAN : ListTimeout(i, sent)
  \/ \E q \in QueryIds : QueryFails(q)
  \/ \E q \in QueryIds, stdout \in DbOutputs : QueryReturns(q, stdout)

\* The callback of getZedWindows on its own: called with the output for any
\* windows of Zed, any number of times.  The promise of the call under way
\* is kept as that of item 1.
Reconcile(titles) ==
  /\ IsStale(zedWorkspaceCache, now) => CanRefresh
  /\ LET l == ListCallback([LState EXCEPT !.promise[1] = PendingListing], 1,
                           "null", Output(titles), titles)
     IN /\ CSet(l.c)
        /\ windowsPromise' = l.promise
        /\ lastWindows' = l.last
        /\ lastCall' = l.call
  /\ UNCHANGED <<appVars, now, queueVars, rawArg, parsed, scriptOf, lastRaise, zedWindows>>

ReconcileNext == \E titles \in TitleLists : Reconcile(titles)

\* The mappings the callback can meet: none read yet, or the parse of an
\* output of the database read at the start.
ReconcileStart ==
  /\ QueueInit
  /\ \E cache \in {c \in ListingCaches : c.lastUpdated \in {0, StartTime}} :
       /\ zedWorkspaceCache = cache
       /\ zedWorkspaceRefreshPromise = 0
       /\ promises = [q \in QueryIds |->
                        IF cache.lastUpdated # 0 /\ q = 1
                        THEN [state |-> "resolved", value |-> cache.mapping,
                              before |-> NoCache]
                        ELSE NoPromise]
       /\ queries = (IF cache.lastUpdated # 0 THEN 1 ELSE 0)
       /\ fresh = [c \in Callers |-> Idle]
       /\ now = StartTime
       /\ lastCall = [op |-> "init", who |-> 0, ret |-> EmptyMapping,
                      at |-> StartTime, before |-> cache, q |-> 0,
                      queriesBefore |-> queries, prev |-> "init",
                      prevq |-> 0, stdout |-> <<>>]

(***************************************************************************)
(* Part 5.  Activation: 'open-project' and activateZedWindowByName         *)
(***************************************************************************)
Slash == "/"

\* The words that contain a double quote.
Quoted == {"q\"t"}

\* The pathOrName arguments of 'open-project': names, paths, and names of
\* untitled windows as getZedWindows makes them.
Targets == { <<"foo">>,
             <<"bar">>,
             <<Slash, "Users", Slash, "foo">>,
             <<Slash, "Users", Slash, "empty project">>,
             <<Slash, "Users", Slash, "q\"t">>,
             UntitledName(1),
             UntitledName(2) }

\* The titles a Zed window can have when one is activated: untitled, a project
\* whose name differs from the untitled title only in case, a project with or
\* without an open file, and one with a double quote in its name.
RaiseTitles == { EmptyProject,
                 <<"Empty Project">>,
                 <<"foo">>,
                 <<"foo", Dash, "main.rs">>,
                 <<"q\"t">> }

RaiseLists == UNION {[1..n -> RaiseTitles] : n \in 0..MaxWindows}

\* path.basename(p): the text after the last '/', trailing ones aside.
RECURSIVE StripSlashes(_)
StripSlashes(p) ==
  IF p # <<>> /\ p[Len(p)] = Slash
  THEN StripSlashes(SubSeq(p, 1, Len(p) - 1)) ELSE p

PathBasename(p) ==
  LET pieces == Split(StripSlashes(p), Slash)
  IN pieces[Len(pieces)]

\* The 'open-project' handler: part_000 416-425.
Candidate(pathOrName) ==
  IF pathOrName # <<>> /\ Head(pathOrName) = Slash
  THEN PathBasename(pathOrName)
  ELSE pathOrName

\* parseInt of the digits the pattern (\d+) can match here.
Digits == {"0", "1", "2", "3"}
ParseInt(d) == CASE d = "0" -> 0 [] d = "1" -> 1 [] d = "2" -> 2 [] d = "3" -> 3

\* windowName.match(/^empty project \((\d+)\)$/)
MatchesUntitled(windowName) ==
  /\ Len(windowName) = 4
  /\ windowName[1] = "empty project"
  /\ windowName[2] = " ("
  /\ windowName[3] \in Digits
  /\ windowName[4] = ")"

\* activateZedWindowByName(windowName): the script it builds, part_000
\* 368-403.  The name is put between double quotes as it is.
ActivationScript(windowName) ==
  IF MatchesUntitled(windowName)
  THEN [kind |-> "byIndex", index |-> ParseInt(windowName[3]), name |-> <<>>]
  ELSE [kind |-> "byName", index |-> 0, name |-> windowName]

\* AppleScript compiles the script unless a double quote in the name ends the
\* string literal early.
Compiles(script) ==
  script.kind = "byName" => \A k \in 1..Len(script.name) : script.name[k] \notin Quoted

\* AppleScript compares text ignoring case (no `considering case` here).
Fold(token) == IF token = "Empty Project" THEN "empty project" ELSE token
FoldText(text) == [k \in 1..Len(text) |-> Fold(text[k])]

\* name of w is "..."
Is(text, other) == FoldText(text) = FoldText(other)

\* name of w starts with "..."
StartsWith(text, prefix) ==
  /\ Len(text) >= Len(prefix)
  /\ Is(SubSeq(text, 1, Len(prefix)), prefix)

\* The first of a set of window positions, 0 for none.
First(positions) ==
  IF positions = {} THEN 0
  ELSE CHOOSE k \in positions : \A m \in positions : k <= m

\* The repeat loop of the script by name: part_000 391-401.
RaiseByName(titles, name) ==
  First({k \in 1..Len(titles) :
           Is(titles[k], name) \/ StartsWith(titles[k], name \o <<Dash>>)})

\* The repeat loop of the script by index: part_000 372-385.
RaiseByIndex(titles, index) ==
  First({k \in 1..Len(titles) :
           /\ Is(titles[k], EmptyProject)
           /\ Cardinality({j \in 1..k : Is(titles[j], EmptyProject)}) = index})

\* The window the script raises (0: none) when it runs to its end.
Raised(script, titles) ==
  IF ~Compiles(script) THEN 0
  ELSE IF script.kind = "byIndex" THEN RaiseByIndex(titles, script.index)
  ELSE RaiseByName(titles, script.name)

\* lastRaise before any activation script ran.
\*   item, target   the item and the pathOrName it was submitted for
\*   script         the script
\*   titles         Zed's windows when it ran
\*   ran            it ended on its own (it may not have when it was killed)
\*   raised         the window it raised, 0 for none
\*   code           its exit code
NoRaise == [item |-> 0, target |-> <<>>, script |-> NoScript, titles |-> <<>>,
            ran |-> FALSE, raised |-> 0, code |-> 0]

\* ipcMain.handle('open-project', ...): part_000 416-425, with
\* activateZedWindowByName up to runAppleScript(script).
OpenProject(pathOrName) ==
  /\ submitted < MaxActivations
  /\ LET s == RunAppleScript(QState, "none")
     IN /\ QSet(s)
        /\ scriptOf' = [scriptOf EXCEPT ![s.submitted] =
                          [script |-> ActivationScript(Candidate(pathOrName)),
                           kind |-> "activate", target |-> pathOrName]]
  /\ UNCHANGED <<appVars, cacheVars, rawArg, parsed, windowsPromise, lastWindows, lastRaise,
                 zedWindows>>

\* An activation script closes.  It exits with 0 after its loop, with 1 when
\* it does not compile; killed by the timeout it may have raised its window
\* or not.  The windows are those of the run: it does not open, close or
\* rename any.
ActivateClose(i, code, ran) ==
  /\ scriptOf[i].kind = "activate"
  /\ child[i].st = "open"
  /\ code \in CloseCodes(child[i])
  /\ code = 0 => (ran /\ Compiles(scriptOf[i].script))
  /\ code = 1 => (ran /\ ~Compiles(scriptOf[i].script))
  /\ QSet(OnClose(OnData(QState, i), i, code))
  /\ lastRaise' = [item |-> i, target |-> scriptOf[i].target,
                   script |-> scriptOf[i].script, titles |-> zedWindows,
                   ran |-> ran,
                   raised |-> IF ran THEN Raised(scriptOf[i].script, zedWindows)
                              ELSE 0,
                   code |-> code]
  /\ UNCHANGED <<appVars, cacheVars, rawArg, parsed, scriptOf, windowsPromise, lastWindows,
                 zedWindows>>

ActivateNext ==
  \/ \E pathOrName \in Targets : OpenProject(pathOrName)
  \/ RunImmediate
  \/ \E i \in Items, code \in {0, 1, 2}, ran \in BOOLEAN :
        ActivateClose(i, code, ran)
  \/ \E i \in Items : SpawnFails(i)
  \/ \E i \in Items, sent \in BOOLEAN : Timeout(i, sent)

\* The script variables before any script was submitted.
ScriptIdle ==
  /\ scriptOf = [i \in Items |-> NoScript]
  /\ windowsPromise = [i \in Items |-> NoListing]
  /\ lastWindows = NoWindows
  /\ lastRaise = NoRaise

\* Zed's windows where no specification activates one.
ScriptInit == ScriptIdle /\ zedWindows = <<>>

(***************************************************************************)
(* Part 6.  The project list: loadProjects, saveProjects, the shortcuts    *)
(*          CommandOrControl+Alt+N and 'open-project' with any argument    *)
(***************************************************************************)

\* A property that is absent, an argument that was not passed (undefined).
Undefined == <<"undefined">>

\* A value used as a condition: undefined and null (and '') are falsy.
IsTruthy(value) == value \notin {Undefined, Null}

\* The entries a persisted list has here: the legacy format { name, color },
\* the new format with a path, the new format with a null path, and an entry
\* with neither name nor path nor displayName.
LegacyEntry == [name |-> <<"foo">>, path |-> Undefined, displayName |-> Undefined,
                color |-> <<"red">>]
NewEntry == [name |-> Undefined, path |-> <<"a", "foo">>, displayName |-> <<"foo">>,
             color |-> <<"red">>]
UnresolvedEntry == [name |-> Undefined, path |-> Null, displayName |-> <<"bar">>,
                    color |-> Undefined]
BlankEntry == [name |-> Undefined, path |-> Undefined, displayName |-> Undefined,
               color |-> Undefined]

ProjectEntries == {LegacyEntry, NewEntry, UnresolvedEntry, BlankEntry}
ProjectLists == UNION {[1..n -> ProjectEntries] : n \in 0..MaxEntries}

\* CONFIG_PATH: no file, a file that is not JSON, or a JSON array.
NoFile == [kind |-> "absent", projects |-> <<>>]
BadFile == [kind |-> "text", projects |-> <<>>]
ListFile(projects) == [kind |-> "json", projects |-> projects]
Files == {NoFile, BadFile} \cup {ListFile(projects) : projects \in ProjectLists}

\* JSON.stringify(projects, null, 2) read back: a property whose value is
\* undefined or a function is left out.
Stringify(projects) ==
  [k \in 1..Len(projects) |->
     [projects[k] EXCEPT !.path = IF @ \in {Inherited(n) : n \in InheritedKeys}
                                  THEN Undefined ELSE @]]

\* p.name && !p.path && !p.displayName
IsLegacy(p) == IsTruthy(p.name) /\ ~IsTruthy(p.path) /\ ~IsTruthy(p.displayName)

\* The function passed to projects.map: part_000 145-162.
MigrateEntry(p, workspaces) ==
  IF IsLegacy(p)
  THEN [name |-> Undefined, path |-> Lookup(workspaces, Str(p.name)),
        displayName |-> p.name, color |-> p.color]
  ELSE [name |-> Undefined,
        path |-> IF IsTruthy(p.path) THEN p.path ELSE Null,
        displayName |-> IF IsTruthy(p.displayName) THEN p.displayName ELSE p.name,
        color |-> p.color]

\* The shortcuts CommandOrControl+Alt+key.
Keys == 1..MaxEntries

\* A loadProjects() call.
\*   st        "idle" (not made), "waiting" at the await, "done"
\*   who       0: 'get-projects'; a key: the handler of that shortcut
\*   projects  what it read from the file
\*   result    what it returned
\*   order     its place among the calls
\*   wrote     it called saveProjects
\*   seen      the writes of the file made before it read the file
NoLoad == [st |-> "idle", who |-> 0, projects |-> <<>>, result |-> <<>>,
           order |-> 0, wrote |-> FALSE, seen |-> 0]

\* The state these handlers work on, as one value.
PState == [c |-> CState, s |-> QState, scriptOf |-> scriptOf, file |-> file,
           writes |-> writes, loads |-> loads, thrown |-> thrown]

PSet(a) ==
  /\ CSet(a.c)
  /\ QSet(a.s)
  /\ scriptOf' = a.scriptOf
  /\ file' = a.file
  /\ writes' = a.writes
  /\ loads' = a.loads
  /\ thrown' = a.thrown

\* saveProjects(projects): part_000 177-183.
SaveProjects(a, projects, by) ==
  [a EXCEPT !.file = ListFile(Stringify(projects)),
            !.writes = Append(@, [by |-> by, projects |-> Stringify(projects)])]

\* activateZedWindowByName(windowName) called by the handler `by`:
\* windowName.match throws a TypeError when windowName is undefined or null
\* (part_000 369), otherwise the script goes to runAppleScript.
ActivateZedWindowByName(a, windowName, by) ==
  IF ~IsTruthy(windowName)
  THEN [a EXCEPT !.thrown = Append(@, [by |-> by, error |-> "TypeError"])]
  ELSE LET s1 == RunAppleScript(a.s, "none")
       IN [a EXCEPT !.s = s1,
                    !.scriptOf[s1.submitted] =
                       [script |-> ActivationScript(windowName),
                        kind |-> "activate", target |-> windowName, by |-> by]]

\* The shortcut handler after `await loadProjects()`: part_000 544-548.
AfterLoad(a, key, projects) ==
  IF key \in 1..Len(projects)
  THEN LET p == projects[key]
           name == IF IsTruthy(p.path) THEN <<Basename(p.path)>>
                   ELSE p.displayName
       IN ActivateZedWindowByName(a, name, key)
  ELSE a

\* loadProjects() from the await on (part_000 143-169), and then its caller.
FinishLoad(a, c, workspaces) ==
  LET l == a.loads[c]
      projects == [k \in 1..Len(l.projects) |->
                     MigrateEntry(l.projects[k], workspaces)]
      needsMigration == \E k \in 1..Len(l.projects) : IsLegacy(l.projects[k])
      a1 == IF needsMigration THEN SaveProjects(a, projects, c) ELSE a
      a2 == [a1 EXCEPT !.loads[c] = [@ EXCEPT !.st = "done", !.result = projects,
                                              !.wrote = needsMigration]]
  IN IF l.who = 0 THEN a2 ELSE AfterLoad(a2, l.who, projects)

\* The calls that wait for the refresh continue in the order they were made.
Awaiting(a) == {c \in Callers : a.loads[c].st = "waiting"}

RECURSIVE FinishWaiting(_)
FinishWaiting(a) ==
  IF Awaiting(a) = {} THEN a
  ELSE LET c == CHOOSE c \in Awaiting(a) :
                   \A d \in Awaiting(a) : a.loads[c].order <= a.loads[d].order
       IN FinishWaiting(FinishLoad(a, c, a.c.fresh[c].value))

\* Room in the executor's bound for the scripts of the shortcuts under way.
SlotsLeft ==
  submitted + Cardinality({c \in Callers : loads[c].st = "waiting" /\ loads[c].who # 0})
    < MaxItems

\* loadProjects() called by 'get-projects' (who = 0) or by the handler of a
\* shortcut: part_000 136-143, and on when the mapping is there at once.
LoadProjects(c, who) ==
  /\ loads[c].st = "idle" /\ fresh[c].st = "idle"
  /\ \A d \in Callers : d < c => loads[d].st # "idle"
  /\ who # 0 => SlotsLeft
  /\ (file.kind = "json" /\ IsStale(zedWorkspaceCache, now)) => CanRefresh
  /\ LET made == Cardinality({d \in Callers : loads[d].st # "idle"})
         a0 == [PState EXCEPT !.loads[c] =
                   [NoLoad EXCEPT !.who = who, !.order = made + 1,
                                  !.projects = file.projects,
                                  !.seen = Len(writes)]]
         a1 == [a0 EXCEPT !.c = FreshAfter(@, c, now), !.loads[c].st = "waiting"]
         a == IF file.kind # "json" THEN [a0 EXCEPT !.loads[c].st = "done"]
              ELSE IF a1.c.fresh[c].st = "resolved"
                   THEN FinishLoad(a1, c, a1.c.fresh[c].value)
                   ELSE a1
     IN /\ PSet(a)
        /\ lastCall' = IF file.kind = "json"
                       THEN Call("getFresh", c, a.c.fresh[c].value,
                                 zedWorkspaceCache, a.c.fresh[c].on)
                       ELSE lastCall
  /\ UNCHANGED <<now, rawArg, parsed, windowsPromise, lastWindows, lastRaise,
                 zedWindows, dialogVars, backlog>>

\* The query calls back without err: the refresh resolves and the waiting
\* loadProjects() calls continue.
LoadQueryReturns(q, stdout) ==
  /\ promises[q].state = "pending"
  /\ LET a == FinishWaiting([PState EXCEPT !.c = OnQueryOutput(@, q, stdout, now)])
     IN /\ PSet(a)
        /\ lastCall' = [Call("queryOutput", 0, a.c.promises[q].value,
                             zedWorkspaceCache, q) EXCEPT !.stdout = stdout]
  /\ UNCHANGED <<now, rawArg, parsed, windowsPromise, lastWindows, lastRaise,
                 zedWindows, dialogVars, backlog>>

\* The query calls back with err.
LoadQueryFails(q) ==
  /\ promises[q].state = "pending"
  /\ LET a == FinishWaiting([PState EXCEPT !.c = OnQueryError(@, q)])
     IN /\ PSet(a)
        /\ lastCall' = Call("queryError", 0, a.c.promises[q].value,
                            zedWorkspaceCache, q)
  /\ UNCHANGED <<now, rawArg, parsed, windowsPromise, lastWindows, lastRaise,
                 zedWindows, dialogVars, backlog>>

\* The arguments of 'open-project': a name, none, and null.
AnyTargets == {<<"foo">>, Undefined, Null}

\* The outputs of the database when the project list is loaded: no row, or
\* the workspace of project foo.
ProjectOutputs == {<<>>, << <<"a", "foo">> >>}

\* The 'open-project' requests made so far.
IpcRequests ==
  Cardinality({i \in Items : scriptOf[i].kind = "activate" /\ scriptOf[i].by = 0})
    + Cardinality({k \in 1..Len(thrown) : thrown[k].by = 0})

\* ipcMain.handle('open-project', ...) with any argument: part_000 416-425.
OpenProjectRequest(pathOrName) ==
  /\ IpcRequests < MaxActivations
  /\ SlotsLeft
  /\ PSet(ActivateZedWindowByName(PState, Candidate(pathOrName), 0))
  /\ UNCHANGED <<now, lastCall, rawArg, parsed, windowsPromise, lastWindows,
                 lastRaise, zedWindows, dialogVars, backlog>>

\* The handlers that read the project list and ask for a window, up to the
\* submission of the script.
ProjectsNext ==
  \/ \E c \in Callers, who \in {0} \cup Keys : LoadProjects(c, who)
  \/ \E q \in QueryIds, stdout \in ProjectOutputs : LoadQueryReturns(q, stdout)
  \/ \E q \in QueryIds : LoadQueryFails(q)
  \/ \E pathOrName \in AnyTargets : OpenProjectRequest(pathOrName)

\* The project list the shortcuts are pressed on when the executor runs too.
ShortcutFile == ListFile(<<NewEntry>>)

\* The shortcuts that have a project there.
ShortcutKeys == 1..Len(ShortcutFile.projects)

\* The argument of 'open-project' when the executor runs too.
ShortcutTargets == {<<"foo">>}

\* The shortcuts and 'open-project' with the executor running their scripts,
\* the mapping being fresh (each loadProjects() goes on without a query).
ShortcutsNext ==
  \/ \E c \in Callers, who \in ShortcutKeys : LoadProjects(c, who)
  \/ \E pathOrName \in ShortcutTargets : OpenProjectRequest(pathOrName)
  \/ QueueEvents

\* The lists the renderer saves: one project, in the new format.
SavedLists == { <<UnresolvedEntry>> }

\* ipcMain.handle('save-projects', ...): part_000 411-414.  Its writes are
\* recorded with by = 0.
SaveProjectsRequest(projects) ==
  /\ Cardinality({k \in 1..Len(writes) : writes[k].by = 0}) < MaxSaves
  /\ PSet(SaveProjects(PState, projects, 0))
  /\ UNCHANGED <<now, lastCall, rawArg, parsed, windowsPromise, lastWindows,
                 lastRaise, zedWindows, dialogVars, backlog>>

\* 'get-projects' and 'save-projects' with the workspace query.
SaveNext ==
  \/ \E c \in Callers : LoadProjects(c, 0)
  \/ \E q \in QueryIds, stdout \in ProjectOutputs : LoadQueryReturns(q, stdout)
  \/ \E q \in QueryIds : LoadQueryFails(q)
  \/ \E projects \in SavedLists : SaveProjectsRequest(projects)

\* The project variables where no specification loads the list.
ProjectsIdle ==
  /\ file = NoFile
  /\ writes = <<>>
  /\ loads = [c \in Callers |-> NoLoad]
  /\ thrown = <<>>

(***************************************************************************)
(* Part 7.  The folder dialog ('select-folder') and the poller             *)
(*          (startHideCheck)                                               *)
(***************************************************************************)
Dialogs == 1..MaxDialogs

\* mainWindow after createWindow(): shown, always on top.
NewWindow == [destroyed |-> FALSE, visible |-> TRUE, onTop |-> TRUE]

\* A 'select-folder' request.
\*   st   "none" (not made), "open" (at the await of showOpenDialog),
\*        "returned" (with a path or null), "rejected" (the dialog call
\*        rejected), "threw" (an exception left the finally block)
\*   previousAlwaysOnTop   const previousAlwaysOnTop, while the handler runs
NoDialog == [st |-> "none", previousAlwaysOnTop |-> FALSE]

\* How a dialog ends: a folder was chosen, it was cancelled, or
\* showOpenDialog rejected (or a step inside the try threw).
Outcomes == {"path", "cancel", "reject"}

\* The state the 'select-folder' handler works on, as one value.
DState == [isSystemDialogOpen |-> isSystemDialogOpen, dialogs |-> dialogs,
           mainWindow |-> mainWindow]

DSet(a) ==
  /\ isSystemDialogOpen' = a.isSystemDialogOpen
  /\ dialogs' = a.dialogs
  /\ mainWindow' = a.mainWindow

\* The handler up to `await dialog.showOpenDialog(...)`: part_000 433-464.
\* targetWindow is mainWindow, the window the request came from.
OpenDialog(a, d) ==
  [a EXCEPT !.dialogs[d] = [st |-> "open",
                            previousAlwaysOnTop |-> a.mainWindow.onTop],
            !.isSystemDialogOpen = TRUE,
            !.mainWindow = [@ EXCEPT !.onTop = FALSE, !.visible = TRUE]]

\* Mutant of FinishDialog: the finally block calls setAlwaysOnTop without
\* looking at isDestroyed(); on a destroyed window the call throws.
FinishDialogUnguarded(a, d, outcome) ==
  IF a.mainWindow.destroyed
  THEN [a EXCEPT !.dialogs[d].st = "threw"]
  ELSE [a EXCEPT !.mainWindow.onTop = a.dialogs[d].previousAlwaysOnTop,
                 !.isSystemDialogOpen = FALSE,
                 !.dialogs[d] = [NoDialog EXCEPT !.st =
                                   IF outcome = "reject" THEN "rejected"
                                   ELSE "returned"]]

\* The handler from the await on: part_000 466-481.  saveDialogState catches
\* its own errors; the finally block runs on every way out of the try.
FinishDialog(a, d, outcome) ==
  [a EXCEPT !.mainWindow.onTop = IF a.mainWindow.destroyed THEN @
                                 ELSE a.dialogs[d].previousAlwaysOnTop,
            !.isSystemDialogOpen = FALSE,
            !.dialogs[d] = [NoDialog EXCEPT !.st =
                              IF outcome = "reject" THEN "rejected"
                              ELSE "returned"]]

\* A dialog is on the screen.
DialogOpen == \E d \in Dialogs : dialogs[d].st = "open"

\* ipcMain.handle('select-folder', ...) is invoked.
SelectFolder(d) ==
  /\ dialogs[d].st = "none"
  /\ \A e \in Dialogs : e < d => dialogs[e].st # "none"
  /\ ~mainWindow.destroyed
  /\ DSet(OpenDialog(DState, d))
  /\ UNCHANGED <<queueVars, cacheVars, windowVars, projectVars, backlog, lastFrontApp,
                 lastPoll>>

\* The dialog of request d ends.
DialogCloses(d, outcome) ==
  /\ dialogs[d].st = "open"
  /\ DSet(FinishDialog(DState, d, outcome))
  /\ UNCHANGED <<queueVars, cacheVars, windowVars, projectVars, backlog, lastFrontApp,
                 lastPoll>>

\* The bar is closed (and destroyed) while a dialog is open.
WindowDestroyed ==
  /\ ~mainWindow.destroyed
  /\ DialogOpen
  /\ mainWindow' = [mainWindow EXCEPT !.destroyed = TRUE, !.visible = FALSE]
  /\ UNCHANGED <<queueVars, cacheVars, windowVars, projectVars, backlog,
                 isSystemDialogOpen, dialogs, lastFrontApp, lastPoll>>

\* The applications that can be frontmost, by process name.
FrontApps == {"Zed", "Electron", "Finder"}

\* stdout.trim().toLowerCase()
Lower(name) ==
  CASE name = "Zed" -> "zed" [] name = "Electron" -> "electron"
    [] name = "Finder" -> "finder" [] OTHER -> name

\* Mutant of ShouldShow: the bar's own process does not count.
ShouldShowZedOnly(frontApp) == frontApp = "zed"

\* const shouldShow = frontApp === 'zed' || frontApp === 'electron'
ShouldShow(frontApp) == frontApp = "zed" \/ frontApp = "electron"

\* lastPoll before the poller's callback ever ran.
\*   item            the item of the query
\*   err             the error the callback got ("null": none)
\*   reported        the process name osascript printed ("": with an error)
\*   visibleBefore, visible   win.isVisible() before and after the callback
\*   present         the window existed
\*   dialogOpen      a folder dialog was open
NoPoll == [item |-> 0, err |-> "null", reported |-> "", visibleBefore |-> FALSE,
           visible |-> FALSE, present |-> FALSE, dialogOpen |-> FALSE]

\* The scripts of the poller and of adjustZedWindows.
\*   duringDialog   a folder dialog was open when it was submitted
FrontScript == [kind |-> "front", duringDialog |-> DialogOpen]
AdjustScript == [kind |-> "adjust"]

\* The setInterval callback of startHideCheck: part_000 497-501.
PollTick ==
  /\ submitted < MaxItems
  /\ Cardinality({i \in Items : scriptOf[i].kind = "front"}) < MaxPolls
  /\ IF isSystemDialogOpen
     THEN UNCHANGED <<queueVars, scriptOf>>
     ELSE LET s == RunAppleScript(QState, "plain")
          IN /\ QSet(s)
             /\ scriptOf' = [scriptOf EXCEPT ![s.submitted] = FrontScript]
  /\ UNCHANGED <<cacheVars, rawArg, parsed, windowsPromise, lastWindows,
                 lastRaise, zedWindows, projectVars, dialogVars, backlog>>

\* The query of item i closes having printed the name of the frontmost
\* process, and its callback runs: part_000 501-525.  A callback that goes on
\* to adjustZedWindows() submits that script from inside the 'close' handler.
PollClose(i, code, app) ==
  /\ scriptOf[i].kind = "front"
  /\ child[i].st = "open"
  /\ code \in CloseCodes(child[i])
  /\ LET r == CloseResult(child[i].killed, code, <<app>>, <<>>)
         returnsEarly == r.err # "null" \/ mainWindow.destroyed
         frontApp == Lower(app)
         shouldShow == ShouldShow(frontApp)
         adjusts == ~returnsEarly /\ frontApp = "zed" /\ lastFrontApp # "zed"
         s == OnClose(OnData([QState EXCEPT !.cbOf[i] =
                                 IF adjusts THEN "poll" ELSE "plain"], i), i, code)
     IN /\ QSet(s)
        /\ scriptOf' = IF s.submitted > submitted
                       THEN [scriptOf EXCEPT ![s.submitted] = AdjustScript]
                       ELSE scriptOf
        /\ mainWindow' = IF returnsEarly THEN mainWindow
                         ELSE IF shouldShow /\ ~mainWindow.visible
                              THEN [mainWindow EXCEPT !.visible = TRUE,
                                                      !.onTop = TRUE]
                         ELSE IF ~shouldShow /\ mainWindow.visible
                              THEN [mainWindow EXCEPT !.visible = FALSE]
                         ELSE mainWindow
        /\ lastFrontApp' = IF returnsEarly THEN lastFrontApp ELSE frontApp
        /\ lastPoll' = [item |-> i, err |-> r.err,
                        reported |-> IF r.err = "null" THEN app ELSE "",
                        visibleBefore |-> mainWindow.visible,
                        visible |-> mainWindow'.visible,
                        present |-> ~mainWindow.destroyed,
                        dialogOpen |-> DialogOpen]
  /\ UNCHANGED <<cacheVars, rawArg, parsed, windowsPromise, lastWindows,
                 lastRaise, zedWindows, projectVars, backlog,
                 isSystemDialogOpen, dialogs>>

\* The script of adjustZedWindows() closes.
AdjustClose(i, code) ==
  /\ scriptOf[i].kind = "adjust"
  /\ ChildClose(i, code)

DialogNext ==
  \/ \E d \in Dialogs : SelectFolder(d)
  \/ \E d \in Dialogs, outcome \in Outcomes : DialogCloses(d, outcome)
  \/ WindowDestroyed
  \/ PollTick
  \/ \E i \in Items, code \in {0, 1}, app \in FrontApps : PollClose(i, code, app)
  \/ \E i \in Items, code \in {0, 1} : AdjustClose(i, code)
  \/ RunImmediate

\* The executor under the poller with time (Part 9): the items are counted, not told apart, and time runs in steps of the
\* poller's interval.
\*   clock     ms since startHideCheck()
\*   running   isScriptRunning
\*   age       ms since the running script was spawned
\*   waiting   scriptQueue.length
NoBacklog == [clock |-> 0, running |-> FALSE, age |-> 0, waiting |-> 0]

\* The dialog and poller variables where no specification uses them.
DialogIdle ==
  /\ isSystemDialogOpen = FALSE
  /\ dialogs = [d \in Dialogs |-> NoDialog]
  /\ mainWindow = NewWindow
  /\ lastFrontApp = ""
  /\ lastPoll = NoPoll
  /\ backlog = NoBacklog

(***************************************************************************)
(* Part 8.  Listing and then activating what was listed                    *)
(***************************************************************************)

\* The titles of Zed's windows when a listed window is activated: untitled,
\* a project named "Empty Project", a project, and a title with ", " in it
\* whose second piece reads "empty project".
RoundTitles == { EmptyProject,
                 <<"Empty Project">>,
                 <<"foo">>,
                 <<"foo", Comma, "empty project">> }

RoundLists == UNION {[1..n -> RoundTitles] : n \in 0..MaxWindows}

\* 'open-project' with the windowName of the k-th entry getZedWindows()
\* resolved with.
OpenListed(k) ==
  /\ lastWindows.item # 0
  /\ k \in 1..Len(lastWindows.value)
  /\ OpenProject(lastWindows.value[k].windowName)

RoundTripNext ==
  \/ Reconcile(zedWindows)
  \/ \E k \in 1..Len(lastWindows.value) : OpenListed(k)
  \/ RunImmediate
  \/ \E i \in Items, code \in {0, 1, 2}, ran \in BOOLEAN :
        ActivateClose(i, code, ran)

(***************************************************************************)
(* Part 9.  The executor under the poller, with time                       *)
(***************************************************************************)

\* runAppleScript(script, callback) and processScriptQueue(): the item is
\* pushed, and shifted and spawned at once when no script is running.
BacklogSubmit(b) ==
  IF b.running THEN [b EXCEPT !.waiting = @ + 1]
  ELSE [b EXCEPT !.running = TRUE, !.age = 0]

\* The 'close' handler and the processScriptQueue it schedules: the next
\* waiting item, if any, is spawned.
BacklogNextItem(b) ==
  IF b.waiting > 0 THEN [b EXCEPT !.waiting = @ - 1, !.age = 0]
  ELSE [b EXCEPT !.running = FALSE, !.age = 0]

\* POLL_INTERVAL_MS pass and the setInterval callback runs (no dialog is
\* open): it submits the frontmost query.  The timer of the running script
\* fires first when it is due.
BacklogTick ==
  /\ backlog.clock < MaxSeconds * POLL_INTERVAL_MS
  /\ backlog.running => backlog.age + POLL_INTERVAL_MS <= OSASCRIPT_TIMEOUT_MS
  /\ backlog' = BacklogSubmit([backlog EXCEPT
                                 !.clock = @ + POLL_INTERVAL_MS,
                                 !.age = IF backlog.running
                                         THEN @ + POLL_INTERVAL_MS ELSE @])
  /\ UNCHANGED <<queueVars, cacheVars, windowVars, projectVars, dialogVars>>

\* The running script closes on its own, at any time before its timer fires.
BacklogClose ==
  /\ backlog.running
  /\ backlog.age < OSASCRIPT_TIMEOUT_MS
  /\ backlog' = BacklogNextItem(backlog)
  /\ UNCHANGED <<queueVars, cacheVars, windowVars, projectVars, dialogVars>>

\* The timer of the running script fires after OSASCRIPT_TIMEOUT_MS: the
\* process is killed and closes.
BacklogTimeout ==
  /\ backlog.running
  /\ backlog.age = OSASCRIPT_TIMEOUT_MS
  /\ backlog' = BacklogNextItem(backlog)
  /\ UNCHANGED <<queueVars, cacheVars, windowVars, projectVars, dialogVars>>

BacklogNext ==
  \/ BacklogTick
  \/ BacklogClose
  \/ BacklogTimeout

(***************************************************************************)
(* Specifications                                                          *)
(***************************************************************************)
ParseIdle == rawArg = <<>> /\ parsed = Unparsed

Init ==
  /\ QueueInit /\ CacheInit /\ ParseIdle /\ ScriptInit
  /\ ProjectsIdle /\ DialogIdle

\* getZedWindows() with the executor and the cache.
ListingInit ==
  /\ ListingStart /\ ParseIdle /\ ScriptInit
  /\ ProjectsIdle /\ DialogIdle

SpecListing == ListingInit /\ [][ListingNext]_vars

\* 'open-project' with the executor.
ActivateInit ==
  /\ QueueInit /\ CacheInit /\ ParseIdle /\ ScriptIdle
  /\ zedWindows \in RaiseLists
  /\ ProjectsIdle /\ DialogIdle

SpecActivate == ActivateInit /\ [][ActivateNext]_vars

\* The callback of getZedWindows applied to the output for any windows.
ReconcileInit ==
  /\ ReconcileStart /\ ParseIdle /\ ScriptInit
  /\ ProjectsIdle /\ DialogIdle

SpecReconcile == ReconcileInit /\ [][ReconcileNext]_vars

\* parseZedWorkspaces applied to every argument within the bound.
ParseInit ==
  /\ QueueInit /\ CacheInit /\ ScriptInit
  /\ rawArg \in ParseInputs /\ parsed = Unparsed
  /\ ProjectsIdle /\ DialogIdle

SpecParse == ParseInit /\ [][ParseCall]_vars

\* The executor with the callbacks the program passes.
SpecQueue == Init /\ [][QueueNext]_vars

\* The executor with any callback.  Fairness: the event loop runs every
\* pending setImmediate callback, and every spawned process eventually emits
\* 'close'.  No fairness on Submit: nobody has to submit again.
SpecQueueThrowFair ==
  /\ Init /\ [][ThrowNext]_vars
  /\ WF_vars(RunImmediate)
  /\ \A i \in Items : WF_vars(\E code \in {0, 1, 2} : ChildClose(i, code))

\* The same fairness with the callbacks the program passes.
SpecQueueFair ==
  /\ Init /\ [][QueueNext]_vars
  /\ WF_vars(RunImmediate)
  /\ \A i \in Items : WF_vars(\E code \in {0, 1, 2} : ChildClose(i, code))

\* The workspace cache.
SpecCache == Init /\ [][CacheNext]_vars

\* loadProjects(), the shortcuts and 'open-project' with the cache and the
\* executor, for every content of the project file.
ProjectsInit ==
  /\ QueueInit /\ CacheInit /\ ParseIdle /\ ScriptInit
  /\ file \in Files
  /\ writes = <<>>
  /\ loads = [c \in Callers |-> NoLoad]
  /\ thrown = <<>>
  /\ DialogIdle

SpecProjects == ProjectsInit /\ [][ProjectsNext]_vars

\* The shortcuts and 'open-project' with the executor, on a list of one
\* project.
ShortcutsInit ==
  /\ QueueInit /\ ParseIdle /\ ScriptInit
  /\ zedWorkspaceCache = [NoCache EXCEPT !.lastUpdated = StartTime]
  /\ zedWorkspaceRefreshPromise = 0
  /\ promises = [q \in QueryIds |->
                   IF q = 1 THEN [state |-> "resolved", value |-> EmptyMapping,
                                  before |-> NoCache]
                   ELSE NoPromise]
  /\ queries = 1
  /\ fresh = [c \in Callers |-> Idle]
  /\ now = StartTime
  /\ lastCall = [op |-> "init", who |-> 0, ret |-> EmptyMapping,
                 at |-> StartTime, before |-> zedWorkspaceCache, q |-> 0,
                 queriesBefore |-> 1, prev |-> "init", prevq |-> 0,
                 stdout |-> <<>>]
  /\ file = ShortcutFile
  /\ writes = <<>>
  /\ loads = [c \in Callers |-> NoLoad]
  /\ thrown = <<>>
  /\ DialogIdle

SpecShortcuts == ShortcutsInit /\ [][ShortcutsNext]_vars

\* The poller and the executor with time.
SpecBacklog == Init /\ [][BacklogNext]_vars

\* 'get-projects' and 'save-projects', for every content of the project file.
SpecSave == ProjectsInit /\ [][SaveNext]_vars

\* The folder dialog and the poller with the executor.
SpecDialog == Init /\ [][DialogNext]_vars

\* getZedWindows' callback and 'open-project' on one unchanging list of
\* windows.
RoundTripInit ==
  /\ QueueInit /\ CacheInit /\ ParseIdle /\ ScriptIdle
  /\ zedWindows \in RoundLists
  /\ ProjectsIdle /\ DialogIdle

SpecRoundTrip == RoundTripInit /\ [][RoundTripNext]_vars


(***************************************************************************)
(* Properties of the AppleScript executor                                  *)
(***************************************************************************)

\* Positions in `calls` of the results delivered for item i.
CallsOf(i) == {k \in 1..Len(calls) : calls[k].item = i}
FirstCall(i) == CHOOSE k \in CallsOf(i) : \A m \in CallsOf(i) : k <= m

\* A process that was spawned and has not closed.
Running(i) == child[i].st = "open"

\* The spawn of item i failed: 'error' without the timer having expired.
SpawnFailed(i) == child[i].errored /\ ~child[i].killed

\* What the process of item i had written when it closed.
WrittenOut(i) == IF SpawnFailed(i) THEN <<>> ELSE Stdout(i)
WrittenErr(i) == IF SpawnFailed(i) THEN <<>> ELSE Stderr(i)

\* The timer of item i has expired: it is armed at the spawn and cleared by
\* the 'close' and 'error' handlers only.
TimerFired(i) == child[i].st = "open" /\ ~child[i].errored /\ ~child[i].timer

\* Items wait only while a script runs or a processScriptQueue call is
\* scheduled, and a running script means a child that has yet to close.
QueueProceeds ==
  /\ scriptQueue # <<>> => (isScriptRunning \/ immediates > 0)
  /\ isScriptRunning => \E i \in Items : child[i].st = "open"

\* C1: at most one spawned osascript process is running at any time, for every
\* interleaving of submissions, 'close', 'error' and the timer.
C1_AtMostOneRunning == Cardinality({i \in Items : Running(i)}) <= 1

\* C2: scripts start in the order they were submitted, none is skipped, and an
\* item submitted later never gets its result before an item submitted
\* earlier.
C2_SubmissionOrder ==
  /\ \A k \in 1..Len(started) : started[k] = k
  /\ \A i, j \in Items :
       (i < j /\ CallsOf(j) # {}) =>
          (CallsOf(i) # {} /\ FirstCall(i) < FirstCall(j))

\* The part of C2 the executor keeps in every run: FIFO start order, and no
\* waiting item is dropped.
StartOrderKept ==
  /\ \A k \in 1..Len(started) : started[k] = k
  /\ \A k \in 1..Len(scriptQueue) : scriptQueue[k] = Len(started) + k
  /\ Len(started) + Len(scriptQueue) = submitted

\* C3: for every item exactly one process is spawned and its callback is
\* invoked exactly once, whatever 'close', 'error' and timeout events occur.
C3_ExactlyOnce ==
  \A i \in Items :
     /\ child[i].spawns <= 1
     /\ cbOf[i] # "none" => Cardinality(CallsOf(i)) <= 1
     /\ (cbOf[i] # "none" /\ child[i].st = "closed") =>
           Cardinality(CallsOf(i)) = 1

\* C4: when the timer of a running item expires its own process is sent
\* SIGKILL (and no process is signalled but by its own timer), the 'close'
\* of that item delivers the 'timeout' error with empty output, and the queue
\* goes on to the next item.
C4_Timeout ==
  /\ \A i \in Items : TimerFired(i) => (child[i].killed /\ child[i].sig)
  /\ \A i \in Items : child[i].sig => child[i].killed
  /\ \A i \in Items : child[i].killed => (child[i].sig \/ child[i].errored)
  /\ \A i \in Items : child[i].timer => child[i].st = "open"
  /\ \A k \in 1..Len(calls) :
        (calls[k].ev = "close" /\ child[calls[k].item].killed) =>
           (calls[k].err = "timeout" /\ calls[k].out = <<>>)
  /\ QueueProceeds

\* C4 witness: a timed-out item has closed, its callback got 'timeout', and
\* the next item was started after it.
C4_Witness ==
  \E i \in Items :
     /\ child[i].killed /\ child[i].st = "closed"
     /\ \E k \in CallsOf(i) : calls[k].err = "timeout"
     /\ i + 1 \in Items /\ child[i + 1].st # "none"
     /\ ~child[i].errored

\* C5: every submitted item eventually gets its result, without any further
\* submission, also after a timeout, a failure or a throwing callback.
C5_EveryItemCompletes ==
  \A i \in Items : (submitted >= i) ~> (CallsOf(i) # {})

\* C6: the 'close' of an item delivers (null, stdout) exactly when the process
\* exited with 0 and the timer had not fired, the stderr text (and no output)
\* on a nonzero exit without timeout, 'timeout' when the timer had fired; and
\* the queue goes on in each case.
C6_Classification ==
  /\ \A k \in 1..Len(calls) :
        LET c == calls[k]
            killed == child[c.item].killed
        IN c.ev = "close" =>
             /\ (c.err = "null") <=> (c.code = 0 /\ ~killed)
             /\ c.err = "null" => (c.out = WrittenOut(c.item) /\ c.msg = <<>>)
             /\ (c.code # 0 /\ ~killed) =>
                  (c.err = "failure" /\ c.msg = WrittenErr(c.item) /\ c.out = <<>>)
             /\ killed => (c.err = "timeout" /\ c.out = <<>>)
  /\ QueueProceeds

\* C6 witness: one run with a success, a failure and a timeout, each followed
\* by the next item.
C6_Witness ==
  /\ Len(calls) = 3
  /\ calls[1].err = "null" /\ calls[1].out = Stdout(1)
  /\ calls[2].err = "failure" /\ calls[2].msg = Stderr(2)
  /\ calls[3].err = "timeout" /\ calls[3].code = 0

(***************************************************************************)
(* Properties of the workspace cache                                       *)
(***************************************************************************)

\* The positions of raw whose line is a path with final component n.
LinesNamed(lines, n) ==
  {k \in 1..Len(lines) : lines[k] # <<>> /\ Basename(lines[k]) = n}

\* The first path of the list with final component n.
FirstNamed(lines, n) ==
  lines[CHOOSE k \in LinesNamed(lines, n) : \A m \in LinesNamed(lines, n) : k <= m]

\* The final components that occur in the list.
NamesIn(lines) == {Basename(lines[k]) : k \in {m \in 1..Len(lines) : lines[m] # <<>>}}

\* C11: the mapping parseZedWorkspaces returns has exactly the final path
\* components of the list as keys, each mapped to the first path of the list
\* that has it.
C11_FirstOccurrenceWins ==
  parsed.done =>
     /\ DOMAIN parsed.mapping = NamesIn(rawArg)
     /\ \A n \in NamesIn(rawArg) : parsed.mapping[n] = FirstNamed(rawArg, n)

\* The same for the names that are not inherited from Object.prototype, and
\* no key for those that are.
FirstOccurrenceWinsOwnNames ==
  parsed.done =>
     /\ DOMAIN parsed.mapping = NamesIn(rawArg) \ InheritedKeys
     /\ \A n \in NamesIn(rawArg) \ InheritedKeys :
           parsed.mapping[n] = FirstNamed(rawArg, n)

\* A later duplicate was discarded.
DuplicateDiscarded ==
  /\ parsed.done
  /\ \E n \in DOMAIN parsed.mapping : Cardinality(LinesNamed(rawArg, n)) > 1

\* Stale as the contract states it: never refreshed, or older than the TTL.
StaleAt(cache, t) == cache.lastUpdated = 0 \/ t - cache.lastUpdated > 60000

Pending == {q \in QueryIds : promises[q].state = "pending"}

\* C7: while a query is outstanding every getZedWorkspacesFresh() and
\* getZedWorkspacesCached() call of a stale cache attaches to it: one query is
\* outstanding at most, it is the stored one, the callers await it, and each
\* of them resolves with what that query resolved with.
C7_SingleFlight ==
  /\ Cardinality(Pending) <= 1
  /\ \A q \in Pending : zedWorkspaceRefreshPromise = q
  /\ \A c \in Callers :
        fresh[c].st = "waiting" =>
           (fresh[c].on = zedWorkspaceRefreshPromise /\ fresh[c].on \in Pending)
  /\ \A c \in Callers :
        (fresh[c].st = "resolved" /\ fresh[c].on # 0) =>
           /\ promises[fresh[c].on].state = "resolved"
           /\ fresh[c].value = promises[fresh[c].on].value
  /\ (/\ lastCall.op \in {"getCached", "getFresh"}
      /\ lastCall.queriesBefore > 0
      /\ promises[lastCall.queriesBefore].state = "pending")
       => (queries = lastCall.queriesBefore /\ lastCall.q = queries)

\* C7 witness: two getFresh callers and a getCached call shared query 1, no
\* other query was issued, and both callers got its result.
C7_Witness ==
  /\ queries = 1
  /\ \A c \in {1, 2} : fresh[c].st = "resolved" /\ fresh[c].on = 1
  /\ fresh[1].value = fresh[2].value /\ fresh[1].value # EmptyMapping
  /\ lastCall.op = "queryOutput" /\ lastCall.prev = "getCached"

\* C8: a failed query resolves with the mapping held before the refresh and
\* leaves mapping and lastUpdated as they were, so the next
\* getZedWorkspacesCached() returns that mapping.
C8_FailureKeepsCache ==
  /\ lastCall.op = "queryError" =>
        /\ zedWorkspaceCache = promises[lastCall.q].before
        /\ zedWorkspaceCache = lastCall.before
        /\ lastCall.ret = promises[lastCall.q].before.mapping
        /\ promises[lastCall.q].value = promises[lastCall.q].before.mapping
  /\ (lastCall.op = "getCached" /\ lastCall.prev = "queryError") =>
        lastCall.ret = promises[lastCall.prevq].before.mapping

\* C8 witness: a refresh of a filled cache failed and the following
\* getZedWorkspacesCached() returned the filled mapping.
C8_Witness ==
  /\ lastCall.op = "getCached" /\ lastCall.prev = "queryError"
  /\ lastCall.ret # EmptyMapping
  /\ zedWorkspaceCache.lastUpdated # 0

\* C9: getZedWorkspacesCached() returns the mapping held when it is called,
\* leaves the cache alone, and a refresh is under way after it exactly if the
\* cache was stale (or one was under way already); it starts a query only
\* for a stale cache.  An age of exactly the TTL is not stale.
C9_Cached ==
  lastCall.op = "getCached" =>
     /\ lastCall.ret = lastCall.before.mapping
     /\ zedWorkspaceCache = lastCall.before
     /\ StaleAt(lastCall.before, lastCall.at) =>
           (zedWorkspaceRefreshPromise # 0 /\ zedWorkspaceRefreshPromise \in Pending)
     /\ ~StaleAt(lastCall.before, lastCall.at) => queries = lastCall.queriesBefore
     /\ queries > lastCall.queriesBefore =>
           (queries = lastCall.queriesBefore + 1 /\ zedWorkspaceRefreshPromise = queries)

\* C9 witness: a call at an age of exactly the TTL, which started nothing.
C9_Witness ==
  /\ lastCall.op = "getCached"
  /\ lastCall.before.lastUpdated # 0
  /\ lastCall.at - lastCall.before.lastUpdated = 60000
  /\ zedWorkspaceRefreshPromise = 0
  /\ lastCall.ret # EmptyMapping

\* C10: getZedWorkspacesFresh() of a fresh cache resolves with the held mapping
\* and issues no query; of a stale cache it awaits a refresh, resolves only
\* once that refresh has completed, and then with the mapping the cache holds
\* at that moment.
C10_Fresh ==
  /\ (lastCall.op = "getFresh" /\ ~StaleAt(lastCall.before, lastCall.at)) =>
        /\ fresh[lastCall.who].st = "resolved"
        /\ fresh[lastCall.who].value = lastCall.before.mapping
        /\ queries = lastCall.queriesBefore
  /\ (lastCall.op = "getFresh" /\ StaleAt(lastCall.before, lastCall.at)) =>
        /\ fresh[lastCall.who].st = "waiting"
        /\ fresh[lastCall.who].on \in Pending
  /\ \A c \in Callers :
        (fresh[c].st = "resolved" /\ fresh[c].on # 0) =>
           promises[fresh[c].on].state = "resolved"
  /\ lastCall.op \in {"queryError", "queryOutput"} =>
        \A c \in Callers :
           fresh[c].on = lastCall.q =>
              (fresh[c].st = "resolved" /\ fresh[c].value = zedWorkspaceCache.mapping)

\* C10 witness: a caller that awaited a refresh got the new mapping, and
\* another one was served from the fresh cache without a query.
C10_Witness ==
  /\ lastCall.op = "getFresh" /\ queries = 1
  /\ fresh[lastCall.who].on = 0 /\ fresh[lastCall.who].value # EmptyMapping
  /\ \E c \in Callers :
        fresh[c].on = 1 /\ fresh[c].st = "resolved"
        /\ fresh[c].value = fresh[lastCall.who].value

\* C12: the cached mapping is the parse of the output of the most recently
\* completed successful query.  Step by step: the callback of a successful
\* query leaves the parse of that query's output in the cache, and no other
\* operation (starting a query, a failed query, the clock) changes the cache;
\* what is held before any query completed is the empty mapping.
C12_CacheIsLastRead ==
  /\ lastCall.op = "queryOutput" =>
        /\ zedWorkspaceCache.mapping = ParseZedWorkspaces(lastCall.stdout)
        /\ zedWorkspaceCache.lastUpdated = lastCall.at
  /\ lastCall.op # "queryOutput" => zedWorkspaceCache = lastCall.before
  /\ zedWorkspaceCache.lastUpdated = 0 => zedWorkspaceCache.mapping = EmptyMapping
  /\ \A q \in Pending : promises[q].before = zedWorkspaceCache

\* C12 witness: a second successful query replaced the mapping of the first
\* one.
C12_Witness ==
  /\ lastCall.op = "queryOutput" /\ lastCall.q = 2
  /\ lastCall.before.mapping # EmptyMapping
  /\ zedWorkspaceCache.mapping # lastCall.before.mapping
  /\ zedWorkspaceCache.mapping # EmptyMapping

(***************************************************************************)
(* Properties of getZedWindows                                             *)
(***************************************************************************)

\* The callback of getZedWindows has run, and went on to build the list.
Listed == lastWindows.item # 0 /\ lastWindows.asked

\* The titles of the delimited title string: its non-empty ', '-pieces.
PiecesOf(stdout) ==
  SelectSeq(Split(TrimText(stdout), Comma), LAMBDA piece : piece # <<>>)

\* The text before the first ' — ' of a title (all of it without one).
BeforeDash(title) ==
  IF \E k \in 1..Len(title) : title[k] = Dash
  THEN SubSeq(title, 1, (CHOOSE k \in 1..Len(title) :
                           /\ title[k] = Dash
                           /\ \A m \in 1..(k - 1) : title[m] # Dash) - 1)
  ELSE title

\* The positions of the untitled windows in a list of titles.
UntitledIn(pieces) == {k \in 1..Len(pieces) : pieces[k] = EmptyProject}

\* C13: the result of getZedWindows() has one entry per project (no two
\* entries of named windows show the same project), and one entry
\* 'empty project (k)' with path null per untitled window.
C13_OneEntryPerProject ==
  Listed =>
     LET value == lastWindows.value
         pieces == PiecesOf(lastWindows.stdout)
     IN /\ \A j, k \in 1..Len(value) :
              value[j].displayName = value[k].displayName => j = k
        /\ Cardinality({k \in 1..Len(value) :
                          /\ value[k].path = Null
                          /\ \E n \in 1..Len(value) :
                                value[k].displayName = UntitledName(n)})
             = Cardinality(UntitledIn(pieces))

\* The untitled windows alone have an entry each.
UntitledHaveOwnEntries ==
  Listed =>
     LET value == lastWindows.value
     IN Cardinality({k \in 1..Len(value) :
                       /\ value[k].path = Null
                       /\ \E n \in 1..Len(value) :
                             value[k].displayName = UntitledName(n)})
          = Cardinality(UntitledIn(PiecesOf(lastWindows.stdout)))

\* C14: when the title-listing script ends with an error of the executor or
\* with empty or whitespace-only output, the callback passes the empty
\* sequence to resolve, does not ask for the mapping and starts no query; the
\* promise is resolved (it has no other way to settle), and with the empty
\* sequence when that run settled it.
C14_ErrorsGiveEmpty ==
  /\ (/\ lastWindows.item # 0
      /\ (lastWindows.err # "null" \/ TrimText(lastWindows.stdout) = <<>>))
       => /\ lastWindows.value = <<>>
          /\ ~lastWindows.asked
          /\ queries = lastWindows.queriesBefore
          /\ windowsPromise[lastWindows.item].st = "resolved"
          /\ lastWindows.settled =>
                windowsPromise[lastWindows.item].value = <<>>
  /\ \A i \in Items :
        (scriptOf[i].kind = "list" /\ CallsOf(i) # {}) =>
           /\ windowsPromise[i].st = "resolved"
           /\ calls[FirstCall(i)].err # "null" => windowsPromise[i].value = <<>>

\* C14 witness: the script timed out while the cache was stale and no query
\* was under way.
C14_Witness ==
  /\ lastWindows.item # 0 /\ lastWindows.err = "timeout"
  /\ lastWindows.settled
  /\ IsStale(lastWindows.before, lastWindows.at)
  /\ zedWorkspaceRefreshPromise = 0

\* Further cases of C14: nonzero exit, spawn error, empty output.
C14_FailureCase == lastWindows.item # 0 /\ lastWindows.err = "failure"
C14_SpawnErrorCase ==
  /\ lastWindows.item # 0
  /\ calls[FirstCall(lastWindows.item)].ev = "error"
  /\ child[lastWindows.item].st = "closed"
  /\ ~child[lastWindows.item].killed
C14_EmptyOutputCase ==
  /\ lastWindows.item # 0 /\ lastWindows.err = "null"
  /\ lastWindows.stdout # <<>> /\ TrimText(lastWindows.stdout) = <<>>

\* C15: once the title-listing script has completed, the promise of
\* getZedWindows() is resolved in that step, with the windows built from the
\* mapping the cache held then, whatever the state of the cache and of the
\* query the call may have started.
C15_NeverWaitsForDatabase ==
  /\ lastWindows.item # 0 => windowsPromise[lastWindows.item].st = "resolved"
  /\ \A i \in Items :
        (scriptOf[i].kind = "list" /\ child[i].st = "closed") =>
           windowsPromise[i].st = "resolved"
  /\ (Listed /\ lastWindows.settled) =>
        /\ windowsPromise[lastWindows.item].value
             = Windows(lastWindows.stdout, lastWindows.before.mapping)
        /\ zedWorkspaceCache.mapping = lastWindows.before.mapping
             \/ lastCall.op = "queryOutput"

\* C15 witness: the list was resolved from a stale cache while the query it
\* started is still pending.
C15_Witness ==
  /\ Listed /\ lastWindows.settled
  /\ IsStale(lastWindows.before, lastWindows.at)
  /\ lastWindows.queriesBefore < queries
  /\ zedWorkspaceRefreshPromise \in Pending
  /\ windowsPromise[lastWindows.item].value # <<>>

\* C15, second case: the started query has failed since.
C15_QueryFailedCase ==
  /\ Listed /\ lastWindows.settled
  /\ lastWindows.queriesBefore < queries
  /\ lastCall.op = "queryError"
  /\ windowsPromise[lastWindows.item].value # <<>>

\* C16: the untitled titles of one call get the indices 1, 2, ... in the
\* order of the title list, as name 'empty project (i)' with path null.
C16_UntitledNumbering ==
  Listed =>
     LET value == lastWindows.value
         pieces == PiecesOf(lastWindows.stdout)
     IN /\ Len(value) = Len(pieces)
        /\ \A k \in UntitledIn(pieces) :
              LET index == Cardinality({j \in UntitledIn(pieces) : j <= k})
              IN /\ value[k].windowName = UntitledName(index)
                 /\ value[k].displayName = UntitledName(index)
                 /\ value[k].path = Null

\* C16 witness: in a call that is not the first, two untitled windows were
\* numbered 1 and 2.
C16_Witness ==
  /\ Listed
  /\ lastCall.op = "getCached" /\ lastCall.prev = "getCached"
  /\ Len(lastWindows.value) = 2
  /\ lastWindows.value[1].windowName = UntitledName(1)
  /\ lastWindows.value[2].windowName = UntitledName(2)

\* C17: the result has an entry per non-empty title of the delimited title
\* string, the i-th entry made from the i-th title: it carries that title as
\* windowName, or is the entry of an untitled window where the title is
\* 'empty project'.
C17_OrderKept ==
  Listed =>
     LET value == lastWindows.value
         pieces == PiecesOf(lastWindows.stdout)
     IN /\ Len(value) = Len(pieces)
        /\ \A k \in 1..Len(pieces) :
              IF pieces[k] = EmptyProject
              THEN \E n \in 1..Len(pieces) : value[k].windowName = UntitledName(n)
              ELSE value[k].windowName = pieces[k]

\* C17 witness: two different titles, in their order.
C17_Witness ==
  /\ Listed
  /\ Len(lastWindows.value) = 2
  /\ lastWindows.value[1].windowName = <<"foo", Dash, "main.rs">>
  /\ lastWindows.value[2].windowName = <<"constructor">>

\* C18: an entry of a named window has the text before the first ' — ' as
\* displayName, and as path the mapping's value for that name if the mapping
\* has the name as a key, null otherwise.
C18_NamedResolution ==
  Listed =>
     LET value == lastWindows.value
         pieces == PiecesOf(lastWindows.stdout)
         mapping == lastWindows.before.mapping
     IN /\ Len(value) = Len(pieces)
        /\ \A k \in 1..Len(pieces) :
              pieces[k] # EmptyProject =>
                 /\ value[k].displayName = BeforeDash(pieces[k])
                 /\ value[k].path =
                      IF Str(BeforeDash(pieces[k])) \in DOMAIN mapping
                      THEN mapping[Str(BeforeDash(pieces[k]))]
                      ELSE Null

\* The same for the names that are not inherited from Object.prototype.
NamedResolutionOwnNames ==
  Listed =>
     LET value == lastWindows.value
         pieces == PiecesOf(lastWindows.stdout)
         mapping == lastWindows.before.mapping
     IN /\ Len(value) = Len(pieces)
        /\ \A k \in 1..Len(pieces) :
              (/\ pieces[k] # EmptyProject
               /\ Str(BeforeDash(pieces[k])) \notin InheritedKeys) =>
                 /\ value[k].displayName = BeforeDash(pieces[k])
                 /\ value[k].path =
                      IF Str(BeforeDash(pieces[k])) \in DOMAIN mapping
                      THEN mapping[Str(BeforeDash(pieces[k]))]
                      ELSE Null

\* A named window with an open file was resolved to the path of its project.
NamedResolved ==
  /\ Listed
  /\ Len(lastWindows.value) = 2
  /\ lastWindows.value[1].windowName = <<"foo", Dash, "main.rs">>
  /\ lastWindows.value[1].displayName = <<"foo">>
  /\ lastWindows.value[1].path \in Paths

\* A named window whose project the mapping does not have got the path null.
NamedUnresolved ==
  /\ Listed
  /\ Len(lastWindows.value) = 1
  /\ lastWindows.value[1].displayName = <<"foo">>
  /\ lastWindows.value[1].path = Null

(***************************************************************************)
(* Properties of activation                                                *)
(***************************************************************************)

\* An activation script has ended on its own.
Activated == lastRaise.item # 0 /\ lastRaise.ran

\* The final component of a path, the target itself when it is no path.
CandidateOf(target) ==
  IF target # <<>> /\ Head(target) = Slash
  THEN LET slashes == {k \in 1..Len(target) : target[k] = Slash}
           last == CHOOSE k \in slashes : \A m \in slashes : m <= k
       IN SubSeq(target, last + 1, Len(target))
  ELSE target

\* Candidates of the form 'empty project (N)'.
UntitledForm(candidate) == \E n \in 0..(MaxWindows + 1) : candidate = UntitledName(n)

\* title starts with prefix, character for character.
HasPrefix(title, prefix) ==
  Len(title) >= Len(prefix) /\ SubSeq(title, 1, Len(prefix)) = prefix

\* The windows whose title is the candidate or starts with candidate ' -- '.
MatchesOf(titles, candidate) ==
  {k \in 1..Len(titles) :
     titles[k] = candidate \/ HasPrefix(titles[k], candidate \o <<Dash>>)}

\* C19: activation of a target that is not of the untitled form takes the
\* final path component of a path (the target itself otherwise) as candidate;
\* its script raises the first window whose title is the candidate exactly or
\* starts with the candidate and ' -- ', raises none when no window matches,
\* and nothing is reported to the caller.
C19_ActivationByName ==
  (Activated /\ ~UntitledForm(CandidateOf(lastRaise.target))) =>
     /\ lastRaise.raised
          = First(MatchesOf(lastRaise.titles, CandidateOf(lastRaise.target)))
     /\ cbOf[lastRaise.item] = "none"

\* The same where the candidate has no double quote and no window title
\* differs from the candidate's text in case only.
ActivationByNamePlain ==
  (/\ Activated /\ ~UntitledForm(CandidateOf(lastRaise.target))
   /\ \A k \in 1..Len(CandidateOf(lastRaise.target)) :
         CandidateOf(lastRaise.target)[k] \notin Quoted
   /\ \A k \in 1..Len(lastRaise.titles) :
         FoldText(lastRaise.titles[k]) = lastRaise.titles[k]) =>
     /\ lastRaise.raised
          = First(MatchesOf(lastRaise.titles, CandidateOf(lastRaise.target)))
     /\ cbOf[lastRaise.item] = "none"

\* A path raised the second window, the first one with an open file of its
\* project.
RaisedByPath ==
  /\ Activated
  /\ lastRaise.target = <<Slash, "Users", Slash, "foo">>
  /\ lastRaise.titles = <<EmptyProject, <<"foo", Dash, "main.rs">>>>
  /\ lastRaise.raised = 2

\* No window matched: none was raised and the script exited with 0.
NoMatchNoop ==
  /\ Activated
  /\ lastRaise.target = <<"bar">>
  /\ lastRaise.titles # <<>>
  /\ lastRaise.raised = 0
  /\ lastRaise.code = 0

\* The windows titled exactly 'empty project'.
UntitledAmong(titles) == {k \in 1..Len(titles) : titles[k] = EmptyProject}

\* The N of 'empty project (N)'.
IndexOf(candidate) ==
  CHOOSE n \in 0..(MaxWindows + 1) : candidate = UntitledName(n)

\* C20: activation of 'empty project (N)' raises the N-th window titled
\* exactly 'empty project' in enumeration order, raises none when there are
\* fewer than N, and nothing is reported to the caller.
C20_UntitledActivation ==
  (Activated /\ UntitledForm(CandidateOf(lastRaise.target))) =>
     LET untitled == UntitledAmong(lastRaise.titles)
         n == IndexOf(CandidateOf(lastRaise.target))
     IN /\ lastRaise.raised
             = (IF \E k \in untitled : Cardinality({j \in untitled : j <= k}) = n
                THEN CHOOSE k \in untitled :
                        Cardinality({j \in untitled : j <= k}) = n
                ELSE 0)
        /\ cbOf[lastRaise.item] = "none"

\* The same where no window title differs from 'empty project' in case only.
UntitledActivationSameCase ==
  (/\ Activated /\ UntitledForm(CandidateOf(lastRaise.target))
   /\ \A k \in 1..Len(lastRaise.titles) :
         FoldText(lastRaise.titles[k]) = lastRaise.titles[k]) =>
     LET untitled == UntitledAmong(lastRaise.titles)
         n == IndexOf(CandidateOf(lastRaise.target))
     IN /\ lastRaise.raised
             = (IF \E k \in untitled : Cardinality({j \in untitled : j <= k}) = n
                THEN CHOOSE k \in untitled :
                        Cardinality({j \in untitled : j <= k}) = n
                ELSE 0)
        /\ cbOf[lastRaise.item] = "none"

\* The second untitled window was raised.
SecondUntitledRaised ==
  /\ Activated
  /\ lastRaise.target = UntitledName(2)
  /\ lastRaise.titles = <<EmptyProject, EmptyProject>>
  /\ lastRaise.raised = 2

\* There were fewer untitled windows than the index: none was raised.
TooFewUntitled ==
  /\ Activated
  /\ lastRaise.target = UntitledName(2)
  /\ lastRaise.titles = <<EmptyProject, <<"foo">>>>
  /\ lastRaise.raised = 0
  /\ lastRaise.code = 0

(***************************************************************************)
(* Further properties of the workspace cache                               *)
(***************************************************************************)

\* An output of sqlite3 without a path line.
NoPathLines(stdout) == \A k \in 1..Len(stdout) : stdout[k] = <<>>

\* C27: when a query calls back without error and its output has no path
\* line, the refresh resolves with the mapping held before, and the cache
\* (mapping and lastUpdated) is as it was before.
C27_EmptyOutputKeepsCache ==
  (lastCall.op = "queryOutput" /\ NoPathLines(lastCall.stdout)) =>
     /\ zedWorkspaceCache = lastCall.before
     /\ lastCall.ret = lastCall.before.mapping

\* What the code does instead: the cache then holds the empty mapping, with
\* lastUpdated set to the time of the callback.
EmptyOutputEmptiesCache ==
  (lastCall.op = "queryOutput" /\ NoPathLines(lastCall.stdout)) =>
     /\ zedWorkspaceCache = [mapping |-> EmptyMapping, lastUpdated |-> lastCall.at]
     /\ lastCall.ret = EmptyMapping

\* An empty output arrived while the cache held a project: the project is gone.
EmptyOutputLosesMapping ==
  /\ lastCall.op = "queryOutput" /\ NoPathLines(lastCall.stdout)
  /\ lastCall.before.mapping # EmptyMapping
  /\ zedWorkspaceCache.mapping = EmptyMapping

\* getZedWorkspacesCached() or getZedWorkspacesFresh() was just called.
Asked == lastCall.op \in {"getCached", "getFresh"}

\* C28: a getZedWorkspacesCached() or getZedWorkspacesFresh() call that
\* follows a failed query, with no time passed since the failure, starts no
\* database query.
C28_NoRetryWithinTTL ==
  (Asked /\ lastCall.prev = "queryError") => queries = lastCall.queriesBefore

\* What the code does instead: every such call starts a query when the cache
\* was stale before the failed one (it still is).
RetryAfterFailure ==
  (Asked /\ lastCall.prev = "queryError" /\ IsStale(lastCall.before, lastCall.at))
     => queries = lastCall.queriesBefore + 1

\* The third query of a run was started right after the second had failed.
RetriedAgain ==
  /\ Asked /\ lastCall.prev = "queryError"
  /\ lastCall.queriesBefore = 2 /\ queries = 3

\* The queries that have not called back.
Outstanding == {q \in QueryIds : promises[q].state = "pending"}

\* C29: a step changes the cached mapping or lastUpdated only if it is the
\* callback of a successful query, the one outstanding query; the calls of
\* getZedWorkspacesCached() and getZedWorkspacesFresh() leave the cache as it
\* is, and there are never two queries outstanding whose callbacks could write
\* one after the other.
C29_CacheFrame ==
  [][/\ zedWorkspaceCache' # zedWorkspaceCache =>
          /\ lastCall'.op = "queryOutput"
          /\ Outstanding = {lastCall'.q}
          /\ zedWorkspaceRefreshPromise = lastCall'.q
     /\ lastCall'.op \in {"getCached", "getFresh", "queryError", "tick"} =>
          zedWorkspaceCache' = zedWorkspaceCache
     /\ Cardinality(Outstanding) <= 1]_vars

\* C29 witness: a call of getZedWorkspacesCached() with a stale cache has
\* started a query and left the cache alone, after an earlier query had
\* written it.
C29_Witness ==
  /\ lastCall.op = "getCached"
  /\ lastCall.queriesBefore < queries
  /\ zedWorkspaceCache = lastCall.before
  /\ zedWorkspaceCache.lastUpdated # 0

\* C30: the stored promise is non-null exactly while a query is outstanding,
\* and it is the promise of that query; a callback (with or without error)
\* leaves it null; a call with a stale cache that finds it null starts a new
\* query and stores its promise.
C30_StoredWhileOutstanding ==
  /\ zedWorkspaceRefreshPromise # 0 <=> Outstanding # {}
  /\ zedWorkspaceRefreshPromise # 0 => Outstanding = {zedWorkspaceRefreshPromise}
  /\ lastCall.op \in {"queryError", "queryOutput"} =>
        /\ zedWorkspaceRefreshPromise = 0
        /\ promises[lastCall.q].state = "resolved"
  /\ (/\ Asked /\ IsStale(lastCall.before, lastCall.at)
      /\ lastCall.prev \in {"queryError", "queryOutput"}) =>
        /\ queries = lastCall.queriesBefore + 1
        /\ zedWorkspaceRefreshPromise = queries
        /\ lastCall.q = queries

\* C30 witness: a call right after a failed query started the second query.
C30_Witness ==
  /\ Asked /\ lastCall.prev = "queryError"
  /\ lastCall.prevq = 1
  /\ zedWorkspaceRefreshPromise = 2

\* The same after a successful query, once its result was older than the TTL.
C30_AfterSuccessCase ==
  /\ Asked /\ lastCall.prev = "tick"
  /\ lastCall.before.lastUpdated # 0
  /\ zedWorkspaceRefreshPromise = 2



(***************************************************************************)
(* Properties of the project list, the shortcuts and 'open-project'        *)
(***************************************************************************)

\* Item i is a raise script that was submitted.
IsRaise(i) == i <= submitted /\ scriptOf[i].kind = "activate"

\* C21: every activation request ('open-project' and the shortcuts) issues its
\* raise script through the executor, and a raise script never runs at the
\* same time as another raise script or any other automation script.
C21_RaiseSerialised ==
  /\ Cardinality({i \in Items : IsRaise(i) /\ scriptOf[i].by # 0})
       = Cardinality({c \in Callers : loads[c].st = "done"})
  /\ \A i, j \in Items : (IsRaise(i) /\ Running(i) /\ Running(j)) => i = j

\* What the code keeps: every request submits one script to the executor, and
\* while no child has emitted 'error' one script runs at a time.
RaiseQueued ==
  /\ Cardinality({i \in Items : IsRaise(i) /\ scriptOf[i].by # 0})
       = Cardinality({c \in Callers : loads[c].st = "done"})
  /\ (\A k \in Items : ~child[k].errored) =>
        \A i, j \in Items : (IsRaise(i) /\ Running(i) /\ Running(j)) => i = j

\* Two raise scripts run at once, one of a shortcut and one of 'open-project'.
TwoRaisesRunning ==
  \E i, j \in Items :
     /\ IsRaise(i) /\ IsRaise(j) /\ Running(i) /\ Running(j)
     /\ scriptOf[i].by # 0 /\ scriptOf[j].by = 0

\* The loadProjects() calls that have returned.
Loaded == {c \in Callers : loads[c].st = "done"}

\* The list loadProjects() read had an entry in the legacy format.
ReadLegacy(c) ==
  \E k \in 1..Len(loads[c].projects) :
     /\ loads[c].projects[k].name # Undefined
     /\ loads[c].projects[k].path = Undefined
     /\ loads[c].projects[k].displayName = Undefined

\* C24: a legacy entry { name } is returned as { path: mapping[name] or null,
\* displayName: name, color }; the migrated list is written exactly once in
\* total over any number of loadProjects() calls, overlapping ones included;
\* a load of a list without legacy entries writes nothing.
C24_MigratedOnce ==
  /\ \A c \in Loaded : \A k \in 1..Len(loads[c].projects) :
        LET p == loads[c].projects[k]
            r == loads[c].result[k]
        IN (p.name # Undefined /\ p.path = Undefined /\ p.displayName = Undefined)
              => /\ r.displayName = p.name
                 /\ r.color = p.color
                 /\ r.path = IF Str(p.name) \in DOMAIN fresh[c].value
                             THEN fresh[c].value[Str(p.name)] ELSE Null
  /\ \A c \in Loaded : ~ReadLegacy(c) => ~loads[c].wrote
  /\ (\E c \in Loaded : ReadLegacy(c)) => Len(writes) = 1
  /\ Len(writes) <= 1

\* What the code does: every loadProjects() call that read a legacy entry
\* writes the list, and no other call does.
WritesPerLegacyLoad ==
  /\ \A c \in Loaded : \A k \in 1..Len(loads[c].projects) :
        LET p == loads[c].projects[k]
            r == loads[c].result[k]
        IN (p.name # Undefined /\ p.path = Undefined /\ p.displayName = Undefined)
              => /\ r.displayName = p.name
                 /\ r.color = p.color
                 /\ r.path = IF Str(p.name) \in DOMAIN fresh[c].value
                             THEN fresh[c].value[Str(p.name)] ELSE Null
  /\ \A c \in Loaded : loads[c].wrote <=> ReadLegacy(c)
  /\ Len(writes) = Cardinality({c \in Loaded : ReadLegacy(c)})

\* Two calls that overlapped have both written the migrated list.
MigratedTwice ==
  /\ Len(writes) = 2
  /\ writes[1].by # writes[2].by
  /\ writes[1].projects = writes[2].projects

\* A call made after the migration reads the migrated list and writes nothing.
LoadAfterMigration ==
  \E c, d \in Loaded :
     /\ loads[c].wrote /\ ~loads[d].wrote
     /\ loads[d].projects = writes[1].projects
     /\ loads[d].projects # <<>>

\* C25: no failure crashes the bar or throws to the caller; a null or absent
\* name given to 'open-project', or a project entry with neither path nor
\* displayName, included.
C25_NothingThrown == thrown = <<>>

\* 'open-project' without a name has thrown a TypeError.
OpenProjectThrew == \E k \in 1..Len(thrown) : thrown[k].by = 0

\* The handler of a shortcut has thrown a TypeError.
ShortcutThrew ==
  \E k \in 1..Len(thrown), c \in Loaded :
     /\ thrown[k].by = loads[c].who
     /\ loads[c].who \in 1..Len(loads[c].result)
     /\ loads[c].result[loads[c].who].path = Null
     /\ loads[c].result[loads[c].who].displayName = Undefined

\* A request throws only when it has no name to look for.
ThrownOnlyWithoutName ==
  \A c \in Loaded :
     (/\ loads[c].who \in 1..Len(loads[c].result)
      /\ \/ loads[c].result[loads[c].who].path # Null
         \/ loads[c].result[loads[c].who].displayName # Undefined)
       => \A k \in 1..Len(thrown) : thrown[k].by # loads[c].who


(***************************************************************************)
(* Properties of the folder dialog and the poller                          *)
(***************************************************************************)

DialogReturned ==
  /\ \E d \in Dialogs : dialogs[d].st = "returned"
  /\ ~DialogOpen /\ ~isSystemDialogOpen
  /\ mainWindow.onTop

\* The queries of the poller.
IsFront(i) == i <= submitted /\ scriptOf[i].kind = "front"

\* C23: while at least one folder dialog is open, overlapping requests
\* included, no frontmost query is submitted, none is executing, and no
\* callback of the poller shows or hides the bar.
C23_PollerSuspended ==
  /\ \A i \in Items : IsFront(i) => ~scriptOf[i].duringDialog
  /\ DialogOpen => \A i \in Items : IsFront(i) => ~Running(i)
  /\ (lastPoll.item # 0 /\ lastPoll.dialogOpen)
        => lastPoll.visible = lastPoll.visibleBefore

\* What the code keeps: the poller submits no query while the flag is set.
SubmittedOnlyWithFlagClear ==
  [][(submitted' > submitted /\ scriptOf'[submitted'].kind = "front")
        => ~isSystemDialogOpen]_vars

\* A query submitted before the dialog opened is executing while it is open.
PollRunningDuringDialog ==
  /\ DialogOpen /\ isSystemDialogOpen
  /\ \E i \in Items : IsFront(i) /\ Running(i) /\ ~scriptOf[i].duringDialog

\* The callback of such a query has hidden the bar under the open dialog.
PollHidDuringDialog ==
  /\ DialogOpen /\ isSystemDialogOpen
  /\ lastPoll.item # 0 /\ lastPoll.dialogOpen
  /\ lastPoll.visibleBefore /\ ~lastPoll.visible
  /\ ~mainWindow.visible

\* Of two overlapping requests the first to end has cleared the flag, and a
\* query was submitted while the dialog of the other is still open.
PollSubmittedDuringDialog ==
  /\ DialogOpen /\ ~isSystemDialogOpen
  /\ \E i \in Items : IsFront(i) /\ scriptOf[i].duringDialog

\* C26: after each poll that completed without error the bar is visible
\* exactly when the frontmost application is Zed or the bar's own Electron
\* process; a poll that ends in error leaves the visibility as it was.
C26_VisibleIffZedFront ==
  lastPoll.item # 0 =>
     /\ (lastPoll.err = "null" /\ lastPoll.present)
           => (lastPoll.visible <=> lastPoll.reported \in {"Zed", "Electron"})
     /\ lastPoll.err # "null" => lastPoll.visible = lastPoll.visibleBefore

\* The bar was hidden and a poll that found Electron in front has shown it.
C26_Witness ==
  /\ lastPoll.item # 0 /\ lastPoll.err = "null" /\ lastPoll.present
  /\ lastPoll.reported = "Electron"
  /\ ~lastPoll.visibleBefore /\ lastPoll.visible

\* A poll that found another application in front has hidden the bar.
PollHid ==
  /\ lastPoll.item # 0 /\ lastPoll.err = "null" /\ lastPoll.present
  /\ lastPoll.reported = "Finder"
  /\ lastPoll.visibleBefore /\ ~lastPoll.visible

\* A poll has ended in error while the bar was hidden.
PollFailedHidden ==
  /\ lastPoll.item # 0 /\ lastPoll.err # "null"
  /\ ~lastPoll.visibleBefore /\ ~lastPoll.visible


(***************************************************************************)
(* Properties of listing followed by activation                            *)
(***************************************************************************)

\* For each non-empty ', '-piece of the joined titles, the window whose title
\* it is a piece of.
RECURSIVE OwnersFrom(_, _)
OwnersFrom(titles, w) ==
  IF titles = <<>> THEN <<>>
  ELSE [k \in 1..Len(PiecesOf(Head(titles))) |-> w]
         \o OwnersFrom(Tail(titles), w + 1)

Owners(titles) == OwnersFrom(titles, 1)

\* The entries of the last listing that came from a piece 'empty project'.
UntitledEntries == UntitledIn(PiecesOf(lastWindows.stdout))

\* The last activation was asked for with the name of entry k of the listing.
ActivatedEntry(k) ==
  /\ Listed /\ Activated
  /\ k \in 1..Len(lastWindows.value)
  /\ lastRaise.target = lastWindows.value[k].windowName

\* C33: with the windows and their order unchanged, activating the name
\* 'empty project (i)' that getZedWindows() gave its i-th untitled entry raises
\* the window that produced that entry; and the names of the untitled entries
\* of one call are pairwise distinct.
C33_RoundTrip ==
  /\ \A k \in UntitledEntries :
        ActivatedEntry(k) => lastRaise.raised = Owners(zedWindows)[k]
  /\ Listed =>
        \A j, k \in UntitledEntries :
           j # k => lastWindows.value[j].windowName # lastWindows.value[k].windowName

\* No title has ', ' in it and none differs from 'empty project' in case only.
PlainTitles ==
  \A w \in 1..Len(zedWindows) :
     /\ \A k \in 1..Len(zedWindows[w]) : zedWindows[w][k] # Comma
     /\ Is(zedWindows[w], EmptyProject) => zedWindows[w] = EmptyProject

\* What the code keeps: the round trip for such titles, and distinct names
\* always.
RoundTripPlainTitles ==
  /\ PlainTitles =>
        \A k \in UntitledEntries :
           ActivatedEntry(k) => lastRaise.raised = Owners(zedWindows)[k]
  /\ Listed =>
        \A j, k \in UntitledEntries :
           j # k => lastWindows.value[j].windowName # lastWindows.value[k].windowName

\* The second of two untitled windows was listed, activated and raised.
RoundTripSecond ==
  /\ zedWindows = <<EmptyProject, EmptyProject>>
  /\ ActivatedEntry(2)
  /\ lastRaise.target = UntitledName(2)
  /\ lastRaise.raised = 2

\* The window "Empty Project" was raised for the entry of the untitled window
\* behind it.
RoundTripWrongCase ==
  /\ zedWindows = << <<"Empty Project">>, EmptyProject >>
  /\ ActivatedEntry(2)
  /\ lastRaise.target = UntitledName(1)
  /\ lastRaise.raised = 1

\* An entry 'empty project (1)' that a piece of a title produced raises no
\* window.
RoundTripPiece ==
  /\ zedWindows = << <<"foo", Comma, "empty project">> >>
  /\ ActivatedEntry(2)
  /\ lastRaise.target = UntitledName(1)
  /\ lastRaise.code = 0
  /\ lastRaise.raised = 0


(***************************************************************************)
(* Properties of 'save-projects' against loadProjects()                    *)
(***************************************************************************)

\* The writes made by 'save-projects', and those made by loadProjects().
SavedAt == {k \in 1..Len(writes) : writes[k].by = 0}
MigratedAt == {m \in 1..Len(writes) : writes[m].by # 0}

\* C32: a list written by 'save-projects' is never overwritten by older data:
\* every migration write that follows it comes from a loadProjects() call that
\* read the file after the list was saved.
C32_NoLostUpdate ==
  \A k \in SavedAt, m \in MigratedAt :
     k < m => loads[writes[m].by].seen >= k

\* What the code keeps: a loadProjects() call that reads the file after the
\* save leaves the saved list alone; only calls that were waiting for the
\* refresh when the list was saved write over it.
OnlyWaitingLoadsOverwrite ==
  /\ \A k \in SavedAt, m \in MigratedAt :
        k < m => loads[writes[m].by].seen < k
  /\ \A k \in SavedAt, c \in Callers :
        (loads[c].st = "done" /\ loads[c].seen >= k) => ~loads[c].wrote

\* The saved list was replaced by the migration of the file read before it.
SavedListLost ==
  /\ Len(writes) = 2
  /\ writes[1].by = 0 /\ writes[2].by # 0
  /\ loads[writes[2].by].seen = 0
  /\ file = ListFile(writes[2].projects)
  /\ file # ListFile(writes[1].projects)

\* A call made after the save has returned the saved list without writing.
SavedListLoaded ==
  \E k \in SavedAt, c \in Callers :
     /\ loads[c].st = "done" /\ loads[c].seen >= k /\ ~loads[c].wrote
     /\ loads[c].projects = writes[k].projects
     /\ file = ListFile(writes[k].projects)


(***************************************************************************)
(* Properties of the executor under the poller                             *)
(***************************************************************************)

\* C31: with the poller submitting a query every 1000 ms and each script
\* taking up to the 3000 ms timeout, the number of waiting items never exceeds
\* a fixed bound: the queries submitted during the longest run of one script.
C31_BacklogBounded ==
  backlog.waiting <= OSASCRIPT_TIMEOUT_MS \div POLL_INTERVAL_MS

\* What the code keeps: the waiting items are bounded by the ticks so far
\* only, and a script never runs past its timeout.
BacklogWithinTicks ==
  /\ backlog.waiting * POLL_INTERVAL_MS <= backlog.clock
  /\ backlog.age <= OSASCRIPT_TIMEOUT_MS

\* With every script running into its timeout the waiting items grow with
\* time: two more in each timeout.
BacklogGrows ==
  /\ backlog.clock = MaxSeconds * POLL_INTERVAL_MS
  /\ 2 * backlog.waiting >= MaxSeconds

\* With every script closing within the interval nothing waits.
BacklogEmpty ==
  /\ backlog.clock = MaxSeconds * POLL_INTERVAL_MS
  /\ backlog.waiting = 0 /\ ~backlog.running

====
